---- MODULE Spec2Model ----
(***************************************************************************)
(* FHEVM SDK: the FhevmClient session (initialize, accessors, encrypt,     *)
(* decrypt), the FhevmProvider state container and the useFhevmEncrypt /   *)
(* useFhevmDecrypt hooks, as a state machine.                              *)
(*                                                                         *)
(* JavaScript runs one job at a time: every action below is the code that  *)
(* runs between two suspension points (await) of one async function, or a  *)
(* whole synchronous method.  The external FHE library (fhevmjs) and the   *)
(* wallet provider (ethers) are the environment: each of their calls       *)
(* either returns a value or throws one of the errors of ExtErrors.  An    *)
(* invocation that has settled frees its place, so a run holds any number  *)
(* of invocations, MaxInit resp. MaxDecrypt of them pending at a time.     *)
(***************************************************************************)
EXTENDS Integers, Sequences, FiniteSets, TLC

(* ---------------------------- bounds ----------------------------------- *)
\* initialize() invocations pending at the same time
MaxInit == 2
\* userDecrypt() invocations pending at the same time
MaxDecrypt == 2
\* FHE instances that are referred to at the same time
MaxHandles == 5

InitIds == 1..MaxInit
\* requests the route handles at a time, FhevmClient objects it constructs
MaxRequests == 2
MaxClients == 3
Requests == 1..MaxRequests
DecIds == 1..MaxDecrypt
Handles == 1..MaxHandles

(* ---------------------------- values ----------------------------------- *)
\* null of an object-valued field / of a string-valued field
NULL == <<>>
\* `private instance: FhevmInstance | null = null`: 0 is null, h > 0 a handle
NoInstance == 0

\* Error objects: name and message, a message being a sequence of text pieces
MkError(msg) == [name |-> <<"Error">>, message |-> msg]
NoError == [name |-> <<>>, message |-> <<"<null>">>]

\* what the environment's calls can throw: the dynamic import, getNetwork,
\* createInstance, instance.getPublicKey, getSigner, signTypedData
ImportErrors == { [name |-> <<"Error">>, message |-> <<"Cannot find module ", "fhevmjs">>] }
NetworkErrors == { [name |-> <<"Error">>, message |-> <<"network", " unreachable">>] }
CreateErrors == { [name |-> <<>>, message |-> <<"bad gateway">>] }
KeyErrors == { [name |-> <<"TypeError">>, message |-> <<"no key for ", "contract">>] }
SignerErrors == { [name |-> <<"Error">>, message |-> <<"no signer">>] }
SignErrors == { [name |-> <<"Error">>, message |-> <<>>] }
ExtErrors ==
    ImportErrors \cup NetworkErrors \cup CreateErrors \cup KeyErrors
        \cup SignerErrors \cup SignErrors

\* Error.prototype.toString, which the template literal `${error}` applies
ErrorToString(e) ==
    IF e.name = <<>> THEN e.message
    ELSE IF e.message = <<>> THEN e.name
    ELSE e.name \o <<": ">> \o e.message

\* s contains t as a contiguous piece
Contains(s, t) ==
    \E i \in 1..(Len(s) - Len(t) + 1) : SubSeq(s, i, i + Len(t) - 1) = t
IsPrefix(p, s) == Len(p) <= Len(s) /\ SubSeq(s, 1, Len(p)) = p

InitPrefix == <<"Failed to initialize FHEVM: ">>
\* a catch block that throws the fixed text only
WrapInitError_NoCause(e) == MkError(InitPrefix)
\* catch (error) { throw new Error(`Failed to initialize FHEVM: ${error}`) }
WrapInitError(e) == MkError(InitPrefix \o ErrorToString(e))

NotInitializedError ==
    MkError(<<"FHEVM instance ", "not initialized", ". Call initialize() first.">>)

\* config.contractAddress, config.aclAddress, config.gatewayUrl: fixed by the
\* constructor
ContractAddress == "0xC0"
AclAddress == "0xAC"
GatewayUrl == "https://gateway"
\* chain ids the provider can report
ChainIds == {31337, 11155111}

\* instance.getPublicKey(contractAddress) of the FHE library: the key pair is
\* opaque; it is named after the instance and address it was derived from
LibPublicKey(h, addr) == <<"pk", h, addr>>
LibSignature(h, addr) == <<"sig", h, addr>>

(* ------------------------ encryption inputs ---------------------------- *)
\* A JavaScript value handed to an encrypt call.  Integers are kept exact as
\* little-endian limbs of 16 bits (mag) with a sign (neg), so that 2^32 and
\* 2^64 are what they are; int is Number.isInteger of a number.
Val(kind, neg, mag, int, b, s) ==
    [kind |-> kind, neg |-> neg, mag |-> mag, int |-> int, b |-> b, s |-> s]
NumV(mag) == Val("number", FALSE, mag, TRUE, FALSE, <<>>)
NegV(mag) == Val("number", TRUE, mag, TRUE, FALSE, <<>>)
FracV(mag) == Val("number", FALSE, mag, FALSE, FALSE, <<>>)
BigV(mag) == Val("bigint", FALSE, mag, TRUE, FALSE, <<>>)
BoolV(b) == Val("boolean", FALSE, <<>>, FALSE, b, <<>>)
StrV(s) == Val("string", FALSE, <<>>, FALSE, FALSE, s)
\* a Uint8Array
BytesV(s) == Val("bytes", FALSE, <<>>, FALSE, FALSE, s)

\* a <= b for magnitudes without leading zero limbs
RECURSIVE MagLeq(_, _)
MagLeq(a, b) ==
    IF Len(a) # Len(b) THEN Len(a) < Len(b)
    ELSE IF Len(a) = 0 THEN TRUE
    ELSE IF a[Len(a)] # b[Len(b)] THEN a[Len(a)] < b[Len(b)]
    ELSE MagLeq(SubSeq(a, 1, Len(a) - 1), SubSeq(b, 1, Len(b) - 1))

MaxUint8 == <<255>>
MaxUint16 == <<65535>>
MaxUint32 == <<65535, 65535>>
MaxUint64 == <<65535, 65535, 65535, 65535>>

HexChars ==
    {"0", "1", "2", "3", "4", "5", "6", "7", "8", "9",
     "a", "b", "c", "d", "e", "f", "A", "B", "C", "D", "E", "F"}
AddressDigits == 40
\* /^0x[a-fA-F0-9]{40}$/.test(s), s a sequence of characters
MatchesAddress(s) ==
    /\ Len(s) = 2 + AddressDigits
    /\ s[1] = "0"
    /\ s[2] = "x"
    /\ \A i \in 3..Len(s) : s[i] \in HexChars

\* the limbs of a natural number (one that a decimal literal of fewer than
\* ten digits denotes)
RECURSIVE ToMag(_)
ToMag(n) == IF n = 0 THEN <<>> ELSE <<n % 65536>> \o ToMag(n \div 65536)

DecChars == {"0", "1", "2", "3", "4", "5", "6", "7", "8", "9"}
\* the value of a digit of base 16 or less: its place in "0123456789abcdef"
DigitValue(ch) ==
    IF ch \in DecChars THEN (CHOOSE d \in 0..9 : ToString(d) = ch)
    ELSE CASE ch \in {"a", "A"} -> 10 [] ch \in {"b", "B"} -> 11
           [] ch \in {"c", "C"} -> 12 [] ch \in {"d", "D"} -> 13
           [] ch \in {"e", "E"} -> 14 [] ch \in {"f", "F"} -> 15
RECURSIVE DigitsValue(_, _)
DigitsValue(s, base) ==
    IF s = <<>> THEN 0
    ELSE base * DigitsValue(SubSeq(s, 1, Len(s) - 1), base) + DigitValue(s[Len(s)])
\* the limbs of a number written in hex digits, four digits to a limb
RECURSIVE HexToMag(_)
HexToMag(ds) ==
    IF ds = <<>> THEN <<>>
    ELSE LET cut == IF Len(ds) > 4 THEN Len(ds) - 4 ELSE 0
             low == DigitsValue(SubSeq(ds, cut + 1, Len(ds)), 16)
             high == HexToMag(SubSeq(ds, 1, cut))
         IN  IF high = <<>> /\ low = 0 THEN <<>> ELSE <<low>> \o high
AllIn(s, chars) == \A i \in 1..Len(s) : s[i] \in chars

\* String.prototype.trim, as StringToNumber and StringToBigInt apply it
RECURSIVE TrimLeft(_)
TrimLeft(s) == IF s # <<>> /\ Head(s) = " " THEN TrimLeft(Tail(s)) ELSE s
RECURSIVE TrimRight(_)
TrimRight(s) ==
    IF s # <<>> /\ s[Len(s)] = " " THEN TrimRight(SubSeq(s, 1, Len(s) - 1)) ELSE s
Trim(s) == TrimRight(TrimLeft(s))

\* "0x" or "0X" followed by at least one hex digit
IsHexLiteral(s) ==
    /\ Len(s) >= 3
    /\ s[1] = "0" /\ s[2] \in {"x", "X"}
    /\ AllIn(SubSeq(s, 3, Len(s)), HexChars)

NaN == Val("number", FALSE, <<>>, FALSE, FALSE, <<>>)
\* Number(s) of a string without exponent part, binary or octal prefix and
\* "Infinity": the empty string and white space are 0, a hex literal is its
\* value, a decimal literal has an optional sign and an optional point
StringToNumber(str) ==
    LET s == Trim(str)
        signed == s # <<>> /\ s[1] \in {"-", "+"}
        body == IF signed THEN Tail(s) ELSE s
        dots == {i \in 1..Len(body) : body[i] = "."}
        dot == IF dots = {} THEN Len(body) + 1 ELSE CHOOSE i \in dots : TRUE
        whole == SubSeq(body, 1, dot - 1)
        frac == SubSeq(body, dot + 1, Len(body))
    IN  IF s = <<>> THEN NumV(<<>>)
        ELSE IF IsHexLiteral(s)
        THEN NumV(HexToMag(SubSeq(s, 3, Len(s))))
        ELSE IF /\ Cardinality(dots) <= 1
                /\ AllIn(whole, DecChars) /\ AllIn(frac, DecChars)
                /\ Len(whole) + Len(frac) >= 1
        THEN Val("number", s[1] = "-", ToMag(DigitsValue(whole, 10)),
                 AllIn(frac, {"0"}), FALSE, <<>>)
        ELSE NaN

\* Number(value); a bigint keeps its value (none is drawn that a double
\* cannot hold or that rounds across a bound)
ToNumber(v) ==
    CASE v.kind = "number" -> v
      [] v.kind = "bigint" -> Val("number", v.neg, v.mag, TRUE, FALSE, <<>>)
      [] v.kind = "boolean" -> IF v.b THEN NumV(<<1>>) ELSE NumV(<<>>)
      [] v.kind = "string" -> StringToNumber(v.s)
      [] OTHER -> NaN

\* !Number.isInteger(n) || n < 0 || n > max is false
IntegerInRange(v, max) ==
    LET n == ToNumber(v)
    IN  n.int /\ (~n.neg \/ n.mag = <<>>) /\ MagLeq(n.mag, max)

\* BigInt(s): <<n>>, or <<>> when it throws a SyntaxError.  The empty string
\* and white space are 0n; there is no point and no sign before a hex literal
StringToBigInt(str) ==
    LET s == Trim(str)
        signed == s # <<>> /\ s[1] \in {"-", "+"}
        body == IF signed THEN Tail(s) ELSE s
    IN  IF s = <<>> THEN <<BigV(<<>>)>>
        ELSE IF IsHexLiteral(s)
        THEN <<BigV(HexToMag(SubSeq(s, 3, Len(s))))>>
        ELSE IF body # <<>> /\ AllIn(body, DecChars)
        THEN <<Val("bigint", s[1] = "-" /\ DigitsValue(body, 10) # 0,
                   ToMag(DigitsValue(body, 10)), TRUE, FALSE, <<>>)>>
        ELSE <<>>

\* BigInt(value): <<n>>, or <<>> when it throws (a RangeError for a number
\* that is no integer)
ToBigInt(v) ==
    CASE v.kind = "number" ->
            IF v.int THEN <<Val("bigint", v.neg /\ v.mag # <<>>, v.mag, TRUE, FALSE, <<>>)>>
            ELSE <<>>
      [] v.kind = "bigint" -> <<v>>
      [] v.kind = "boolean" -> IF v.b THEN <<BigV(<<1>>)>> ELSE <<BigV(<<>>)>>
      [] v.kind = "string" -> StringToBigInt(v.s)
      [] OTHER -> <<>>

\* validateEncryptionValue(type, value).valid
validateEncryptionValue(type, v) ==
    CASE type = "bool" -> v.kind = "boolean"
      [] type = "uint8" -> IntegerInRange(v, MaxUint8)
      [] type = "uint16" -> IntegerInRange(v, MaxUint16)
      [] type = "uint32" -> IntegerInRange(v, MaxUint32)
      [] type = "uint64" ->
            /\ ToBigInt(v) # <<>>
            /\ ~ToBigInt(v)[1].neg
            /\ MagLeq(ToBigInt(v)[1].mag, MaxUint64)
      [] type = "address" -> v.kind = "string" /\ MatchesAddress(v.s)
      [] OTHER -> FALSE

\* validateEncryptionValue(type, value).error of a rejection
ValidationReason(type, v) ==
    CASE type = "bool" -> <<"Value must be a boolean">>
      [] type = "uint8" -> <<"Value must be an integer between 0 and 255">>
      [] type = "uint16" -> <<"Value must be an integer between 0 and 65535">>
      [] type = "uint32" -> <<"Value must be an integer between 0 and 4294967295">>
      [] type = "uint64" ->
            IF ToBigInt(v) = <<>> THEN <<"Value must be a valid BigInt">>
            ELSE <<"Value must be between 0 and 2^64-1">>
      [] type = "address" -> <<"Value must be a valid Ethereum address">>
      [] OTHER -> <<"Unsupported type: ", type>>

\* the default case without its reason
ValidationResult_NoReason(type, v) ==
    IF validateEncryptionValue(type, v) THEN [valid |-> TRUE]
    ELSE IF type \in {"bool", "uint8", "uint16", "uint32", "uint64", "address"}
    THEN [valid |-> FALSE, error |-> ValidationReason(type, v)]
    ELSE [valid |-> FALSE]
\* the object validateEncryptionValue returns
ValidationResult(type, v) ==
    IF validateEncryptionValue(type, v) THEN [valid |-> TRUE]
    ELSE [valid |-> FALSE, error |-> ValidationReason(type, v)]

ValidAddress == <<"0", "x">> \o [i \in 1..AddressDigits |-> IF i % 2 = 0 THEN "a" ELSE "F"]
ShortAddress == <<"0", "x", "1", "2", "3">>

EncTypes == {"bool", "uint8", "uint16", "uint32", "uint64", "address"}
\* the values each encrypt method is exercised with: the boundary of the
\* type's range and a value just outside it
EncValues(type) ==
    CASE type = "bool" -> {BoolV(TRUE)}
      [] type = "uint8" -> {NumV(MaxUint8), NumV(<<256>>)}
      [] type = "uint16" -> {NumV(MaxUint16)}
      [] type = "uint32" -> {NumV(MaxUint32)}
      [] type = "uint64" -> {BigV(MaxUint64)}
      [] type = "address" -> {StrV(ValidAddress), StrV(ShortAddress)}
      [] OTHER -> {NumV(<<1>>)}
NoValue == Val("none", FALSE, <<>>, FALSE, FALSE, <<>>)

\* ciphertexts the FHE library can return (opaque bytes)
Ciphertexts == {<<1>>, <<0, 255>>}
\* what an encrypt entry point of the library can throw
LibErrors == { [name |-> <<"Error">>, message |-> <<"invalid", " value">>] }
UserAddresses == {"0xU1", "0xU2"}

(* ------------------------ decryption values ---------------------------- *)
\* a value that may be null: Some(x) or NULL
Some(x) == <<x>>

\* DecryptRequest { ciphertext, contractAddress, userAddress }
DecryptRequests ==
    { [ciphertext |-> <<1>>, contractAddress |-> ContractAddress, userAddress |-> "0xU1"],
      [ciphertext |-> <<0, 255>>, contractAddress |-> "0xC1", userAddress |-> "0xU2"] }
NoRequest == [ciphertext |-> <<>>, contractAddress |-> "", userAddress |-> ""]

\* typed data whose verifying contract is the session's configured contract
TypedData_ConfiguredContract(chainId, req) ==
    [domain |-> [name |-> "FHEVM Decryption", version |-> "1", chainId |-> chainId,
                 verifyingContract |-> IF req.contractAddress = "" THEN ""
                                       ELSE ContractAddress],
     types |-> [Decryption |-> <<[name |-> "ciphertext", type |-> "bytes"],
                                 [name |-> "user", type |-> "address"]>>],
     value |-> [ciphertext |-> req.ciphertext, user |-> req.userAddress]]
\* the typed data handed to signer.signTypedData(domain, types, value)
TypedData(chainId, req) ==
    [domain |-> [name |-> "FHEVM Decryption", version |-> "1", chainId |-> chainId,
                 verifyingContract |-> req.contractAddress],
     types |-> [Decryption |-> <<[name |-> "ciphertext", type |-> "bytes"],
                                 [name |-> "user", type |-> "address"]>>],
     value |-> [ciphertext |-> req.ciphertext, user |-> req.userAddress]]
NoTypedData == TypedData(0, NoRequest)

DecryptPrefix == <<"Decryption failed: ">>
\* catch (error) { throw new Error(`Decryption failed: ${error}`) }
WrapDecryptError(e) == MkError(DecryptPrefix \o ErrorToString(e))

\* the placeholder value userDecrypt and publicDecrypt return
MockValue == 0

\* Uint8Array -> hex: encryptedToHex
HexDigit(n) ==
    <<"0", "1", "2", "3", "4", "5", "6", "7", "8", "9",
      "a", "b", "c", "d", "e", "f">>[n + 1]
\* b.toString(16) without the padding
ByteToHex_NoPad(b) ==
    IF b < 16 THEN <<HexDigit(b)>> ELSE <<HexDigit(b \div 16), HexDigit(b % 16)>>
\* b.toString(16).padStart(2, '0')
ByteToHex(b) == <<HexDigit(b \div 16), HexDigit(b % 16)>>
RECURSIVE JoinBytes(_)
JoinBytes(bytes) ==
    IF bytes = <<>> THEN <<>> ELSE ByteToHex(Head(bytes)) \o JoinBytes(Tail(bytes))
encryptedToHex(bytes) == <<"0", "x">> \o JoinBytes(bytes)
\* bytesToHex has the same body
bytesToHex(bytes) == <<"0", "x">> \o JoinBytes(bytes)

\* the value of a hex digit, -1 for any other character
LowerHex == <<"0", "1", "2", "3", "4", "5", "6", "7", "8", "9",
              "a", "b", "c", "d", "e", "f">>
UpperHex == <<"0", "1", "2", "3", "4", "5", "6", "7", "8", "9",
              "A", "B", "C", "D", "E", "F">>
HexValue(ch) ==
    IF \E i \in 1..16 : LowerHex[i] = ch
    THEN (CHOOSE i \in 1..16 : LowerHex[i] = ch) - 1
    ELSE IF \E i \in 1..16 : UpperHex[i] = ch
    THEN (CHOOSE i \in 1..16 : UpperHex[i] = ch) - 1
    ELSE -1

\* parseInt(s, 16) for s of one or two characters without white space or
\* sign: <<n>>, or <<>> for NaN.  A leading "0x" is skipped as a prefix, and
\* the digits up to the first character that is none are read.
parseInt16(s) ==
    IF Len(s) = 0 THEN <<>>
    ELSE IF Len(s) = 2 /\ s[1] = "0" /\ s[2] \in {"x", "X"} THEN <<>>
    ELSE IF HexValue(s[1]) < 0 THEN <<>>
    ELSE IF Len(s) = 2 /\ HexValue(s[2]) >= 0
    THEN <<16 * HexValue(s[1]) + HexValue(s[2])>>
    ELSE <<HexValue(s[1])>>

\* what a Uint8Array element holds after it was assigned n: NaN becomes 0
ToUint8(n) == IF n = <<>> THEN 0 ELSE n[1] % 256

\* the loop of hexToBytes / hexToUint8Array over the string without its
\* prefix: new Uint8Array(length / 2) drops the fraction of the length, and
\* an assignment past the end of the array is ignored
PairsToBytes(cleaned) ==
    [k \in 1..(Len(cleaned) \div 2) |->
        ToUint8(parseInt16(SubSeq(cleaned, 2 * k - 1, 2 * k)))]

\* hex.replace('0x', ''): the first occurrence, wherever it is
ReplaceFirst0x(hex) ==
    IF \E i \in 1..(Len(hex) - 1) : hex[i] = "0" /\ hex[i + 1] = "x"
    THEN LET i == CHOOSE j \in 1..(Len(hex) - 1) :
                     /\ hex[j] = "0" /\ hex[j + 1] = "x"
                     /\ \A l \in 1..(j - 1) : ~(hex[l] = "0" /\ hex[l + 1] = "x")
         IN  SubSeq(hex, 1, i - 1) \o SubSeq(hex, i + 2, Len(hex))
    ELSE hex
hexToBytes(hex) == PairsToBytes(ReplaceFirst0x(hex))

\* hex.startsWith('0x') ? hex.slice(2) : hex
Slice0x(hex) ==
    IF Len(hex) >= 2 /\ hex[1] = "0" /\ hex[2] = "x"
    THEN SubSeq(hex, 3, Len(hex))
    ELSE hex
hexToUint8Array(hex) == PairsToBytes(Slice0x(hex))

\* the arguments the conversions are applied to
MaxBytes == 3
MaxHexLen == 5
SampleBytes == {0, 9, 10, 16, 171, 255}
ByteSeqs ==
    UNION {[1..n -> SampleBytes] : n \in 0..MaxBytes} \cup {<<b>> : b \in 0..255}
HexAlphabet == {"0", "a", "F", "g", "x"}
HexStrings == UNION {[1..n -> HexAlphabet] : n \in 0..MaxHexLen}

VARIABLES
    instance,        \* FhevmClient.instance
    publicKey,       \* FhevmClient.publicKey
    signature,       \* FhevmClient.signature
    initPc,          \* where each pending initialize() invocation stands
    initOwner,       \* who awaits it
    initChain,       \* the chainId it handed to createInstance
    lastInit,        \* how the invocation that settled last settled
    lastOp,          \* the last synchronous client call and how it ended
    decPc,           \* where each pending userDecrypt() invocation stands
    decReq,          \* its request
    decVia,          \* who awaits it: application code or the decrypt hook
    decTyped,        \* the typed data it handed to signer.signTypedData
    lastDec,         \* how the userDecrypt() that settled last settled
    provInstance,    \* FhevmProvider state
    provPublicKey,
    provSignature,
    provInitialized,
    provInitializing,
    provError,
    closures,        \* the provider state each render so far has closed over
    mounted,         \* the hook the mounted component uses
    isEncrypting,    \* useFhevmEncrypt state
    encrypted,
    encryptedHex,
    encError,
    isDecrypting,    \* useFhevmDecrypt state
    decrypted,
    decError,
    lastHook,        \* the last invocation of a hook wrapper and what it returned
    isRegisteredVoter,  \* ProxyVotingSystem storage
    delegations,
    votingPower,
    proposals,       \* proposals[i + 1] is the proposal with id i
    now,             \* block.timestamp, in days
    voteCast,        \* the VoteCast events emitted, counted by proposal and voter
    lastTx,          \* the last transaction sent to the contract and its outcome
    cachedClient,    \* module state of the keys API route
    cachedPublicKey,
    reqPc,           \* where each request being handled stands
    reqClient,       \* the client its getFheClient() creates or has returned
    clientsCreated,  \* how many FhevmClient objects the route has constructed
    isBatchEncrypting,  \* useEncryption state
    batchError,
    batchItems,      \* the items of the encryptBatch call in progress
    batchSdk,        \* the isInitialized its sdkEncrypt closed over
    batchResults,    \* its results array
    lastBatch        \* the encryptBatch that returned last: items, result

clientVars == <<instance, publicKey, signature>>
initVars == <<initPc, initOwner, initChain, lastInit>>
decVars == <<decPc, decReq, decVia, decTyped, lastDec>>
provState == <<provInstance, provPublicKey, provSignature, provInitialized,
               provInitializing, provError>>
encHookVars == <<isEncrypting, encrypted, encryptedHex, encError>>
decHookVars == <<isDecrypting, decrypted, decError>>
votingVars == <<isRegisteredVoter, delegations, votingPower, proposals, now,
                voteCast, lastTx>>
routeVars == <<cachedClient, cachedPublicKey, reqPc, reqClient, clientsCreated>>
batchVars == <<isBatchEncrypting, batchError, batchItems, batchSdk, batchResults,
               lastBatch>>
\* everything around the client: the React state, the deployed contract and
\* the API route
uiVars == <<provState, closures, mounted, votingVars, routeVars, batchVars,
            encHookVars, decHookVars, lastHook>>
vars == <<clientVars, initVars, lastOp, decVars, uiVars>>

\* repeat: the invocation that settled before this one had resolved;
\* fresh: the instance returned is another one than the session held before
NoSettle == [status |-> "none", instance |-> NoInstance,
             publicKey |-> NULL, signature |-> NULL,
             cause |-> NoError, error |-> NoError, repeat |-> FALSE, fresh |-> FALSE]

\* return { instance, publicKey, signature }
Resolved(h, pk, sig) ==
    [status |-> "resolved", instance |-> h, publicKey |-> pk, signature |-> sig,
     cause |-> NoError, error |-> NoError,
     repeat |-> lastInit.status = "resolved", fresh |-> h # instance]

\* the catch block of initialize(): whatever was thrown is wrapped and rethrown
Rejected(e) ==
    [status |-> "rejected", instance |-> NoInstance,
     publicKey |-> NULL, signature |-> NULL,
     cause |-> e, error |-> WrapInitError(e),
     repeat |-> lastInit.status = "resolved", fresh |-> FALSE]

\* a synchronous client call: what the caller got, and the call it made on
\* the FHE instance (method "none": it made none)
NoOp == [op |-> "none", outcome |-> "none", error |-> NoError, result |-> <<>>,
         method |-> "none", value |-> NoValue, addr |-> "", user |-> ""]
NoCall == [method |-> "none", value |-> NoValue, addr |-> "", user |-> ""]
Returned(op, r, call) ==
    [op |-> op, outcome |-> "returned", error |-> NoError, result |-> r,
     method |-> call.method, value |-> call.value,
     addr |-> call.addr, user |-> call.user]
Threw(op, e, call) ==
    [op |-> op, outcome |-> "threw", error |-> e, result |-> <<>>,
     method |-> call.method, value |-> call.value,
     addr |-> call.addr, user |-> call.user]

NoDecSettle == [status |-> "none", value |-> NULL, success |-> FALSE,
                cause |-> NoError, error |-> NoError]

\* what a render hands to the callbacks it creates
Closure(initialized, initializing) ==
    [isInitialized |-> initialized, isInitializing |-> initializing]

NoHook == [hook |-> "none", status |-> "none", value |-> NULL, pending |-> FALSE]
\* a wrapper's promise resolved with v; pending: it had set its pending flag
HookReturned(hook, v, pending) ==
    [hook |-> hook, status |-> "returned", value |-> v, pending |-> pending]
\* the decrypt wrapper is suspended at `await client.userDecrypt(request)`
HookAwaiting(hook) ==
    [hook |-> hook, status |-> "awaiting", value |-> NULL, pending |-> TRUE]

(* ----------------------- ProxyVotingSystem values ---------------------- *)
\* an euint32 as two limbs of 16 bits, low limb first; the arithmetic of the
\* library wraps around
Euint32(n) == <<n % 65536, n \div 65536>>
Add32(a, b) ==
    LET lo == a[1] + b[1]
    IN  <<lo % 65536, (a[2] + b[2] + lo \div 65536) % 65536>>
Sub32(a, b) ==
    LET lo == a[1] - b[1]
        borrow == IF lo < 0 THEN 1 ELSE 0
    IN  <<(lo + 65536) % 65536, (a[2] - b[2] - borrow + 65536) % 65536>>

\* the deployer, who is the owner, and one more account
Owner == "0xOwner"
Accounts == {Owner, "0xU1"}
ZeroAddress == "0x0"
\* 7 days
VOTING_PERIOD == 7
MaxProposals == 1
MaxTime == 8
\* voting power is looked at up to MaxPower above and below zero
MaxPower == 2
PowerValues ==
    {Euint32(n) : n \in 0..MaxPower}
    \cup {Sub32(Euint32(0), Euint32(n)) : n \in 1..MaxPower}
ProposalIds == 0..MaxProposals

NoDelegation == [delegate |-> ZeroAddress, active |-> FALSE, weight |-> Euint32(0)]
NoTx == [fn |-> "none", sender |-> ZeroAddress, proposalId |-> 0,
         ok |-> FALSE, reason |-> ""]
\* the state the constructor leaves
Deployed ==
    /\ isRegisteredVoter = [a \in Accounts |-> a = Owner]
    /\ delegations = [a \in Accounts |-> NoDelegation]
    /\ votingPower = [a \in Accounts |-> IF a = Owner THEN Euint32(1) ELSE Euint32(0)]
    /\ proposals = <<>>
    /\ now = 0
    /\ voteCast = <<>>
    /\ lastTx = NoTx

(* ------------------------- FhevmClient --------------------------------- *)
\* isInitialized(): this.instance !== null
isInitialized == instance # NoInstance
\* getInstance() / getPublicKey() / getSignature() throw on a falsy field
getInstanceThrows == instance = NoInstance
getPublicKeyThrows == publicKey = NULL
getSignatureThrows == signature = NULL
\* the session holds an instance, a public key and a signature
Ready == instance # NoInstance /\ publicKey # NULL /\ signature # NULL

\* what the last encryptBatch call was given and what it returned
NoBatch == [status |-> "none", items |-> <<>>, results |-> <<>>]

\* the keys route module as loaded: `let cachedClient: any = null`,
\* `let cachedPublicKey: string | null = null`; no request is being handled
NoClient == 0
RouteLoaded ==
    /\ cachedClient = NoClient
    /\ cachedPublicKey = NULL
    /\ reqPc = [r \in Requests |-> "idle"]
    /\ reqClient = [r \in Requests |-> NoClient]
    /\ clientsCreated = 0

\* no initialize() and no decryption was started, no hook state was set
Untouched ==
    /\ instance = NoInstance
    /\ publicKey = NULL
    /\ signature = NULL
    /\ initPc = [c \in InitIds |-> "idle"]
    /\ initOwner = [c \in InitIds |-> "none"]
    /\ initChain = [c \in InitIds |-> 0]
    /\ lastInit = NoSettle
    /\ decPc = [d \in DecIds |-> "idle"]
    /\ decReq = [d \in DecIds |-> NoRequest]
    /\ decVia = [d \in DecIds |-> "none"]
    /\ decTyped = [d \in DecIds |-> NoTypedData]
    /\ lastDec = NoDecSettle
    /\ provInstance = NoInstance
    /\ provPublicKey = NULL
    /\ provSignature = NULL
    /\ provInitialized = FALSE
    /\ provInitializing = FALSE
    /\ provError = NoError
    /\ closures = {Closure(FALSE, FALSE)}
    /\ isEncrypting = FALSE
    /\ encrypted = NULL
    /\ encryptedHex = NULL
    /\ encError = NoError
    /\ isDecrypting = FALSE
    /\ decrypted = NULL
    /\ decError = NoError
    /\ lastHook = NoHook
    /\ Deployed
    /\ RouteLoaded
    /\ isBatchEncrypting = FALSE
    /\ batchError = NoError
    /\ batchItems = <<>>
    /\ batchSdk = FALSE
    /\ batchResults = <<>>
    /\ lastBatch = NoBatch

\* a new FhevmClient, nothing called yet; no hook state has been set
Fresh ==
    /\ Untouched
    /\ lastOp = NoOp

\* the client used without a React component
Init == Fresh /\ mounted = "none"

\* the handle inside a key of the library, 0 for null
KeyHandle(k) == IF k = NULL THEN NoInstance ELSE k[2]
\* the instances something still refers to
LiveHandles ==
    {instance, KeyHandle(publicKey), KeyHandle(signature), provInstance,
     KeyHandle(provPublicKey), KeyHandle(provSignature), lastInit.instance}
\* createInstance returns a new object: one nothing refers to yet
FreshHandle ==
    CHOOSE h \in Handles :
        /\ h \notin LiveHandles
        /\ \A g \in Handles : g \notin LiveHandles => h <= g

\* initialize() is entered: it runs up to `await import('fhevmjs')`
InitializeBegin(c, owner) ==
    /\ initPc[c] = "idle"
    /\ \A b \in InitIds : b < c => initPc[b] # "idle"
    /\ initPc' = [initPc EXCEPT ![c] = "import"]
    /\ initOwner' = [initOwner EXCEPT ![c] = owner]
    /\ UNCHANGED <<clientVars, initChain, lastInit>>
    /\ UNCHANGED <<lastOp, decVars>>

\* FhevmProvider.initialize resumes after `await client.initialize()`:
\* the four setters on success, setError on failure, setIsInitializing(false)
\* in the finally block.  Other awaiters keep no state here.
ProviderSettle(c, settle) ==
    /\ IF initOwner[c] = "provider"
       THEN /\ provInitializing' = FALSE
            /\ IF settle.status = "resolved"
               THEN /\ provInstance' = settle.instance
                    /\ provPublicKey' = settle.publicKey
                    /\ provSignature' = settle.signature
                    /\ provInitialized' = TRUE
                    /\ UNCHANGED provError
               ELSE /\ provError' = settle.error
                    /\ UNCHANGED <<provInstance, provPublicKey, provSignature,
                                   provInitialized>>
       ELSE UNCHANGED provState
    /\ closures' = closures \cup {Closure(provInitialized', provInitializing')}
    /\ UNCHANGED <<mounted, votingVars, routeVars, batchVars, encHookVars, decHookVars, lastHook>>

\* the invocation is over: its frame is gone and its awaiter resumes
InitializeSettle(c, settle) ==
    /\ initPc' = [initPc EXCEPT ![c] = "idle"]
    /\ initOwner' = [initOwner EXCEPT ![c] = "none"]
    /\ initChain' = [initChain EXCEPT ![c] = 0]
    /\ lastInit' = settle
    /\ ProviderSettle(c, settle)

\* the invocation's promise rejects with the wrapped error
InitializeReject(c, e) == InitializeSettle(c, Rejected(e))

\* the dynamic import settles; on success `await provider.getNetwork()` is next
ImportDone(c) ==
    /\ initPc[c] = "import"
    /\ \/ /\ initPc' = [initPc EXCEPT ![c] = "network"]
          /\ UNCHANGED <<initOwner, initChain, lastInit, uiVars>>
       \/ \E e \in ImportErrors : InitializeReject(c, e)
    /\ UNCHANGED clientVars
    /\ UNCHANGED <<lastOp, decVars>>

\* getNetwork settles; on success createInstance({chainId, publicKeyVerifier,
\* gatewayUrl}) is called and awaited
NetworkDone(c) ==
    /\ initPc[c] = "network"
    /\ \/ /\ \E id \in ChainIds : initChain' = [initChain EXCEPT ![c] = id]
          /\ initPc' = [initPc EXCEPT ![c] = "create"]
          /\ UNCHANGED <<initOwner, lastInit, uiVars>>
       \/ \E e \in NetworkErrors : InitializeReject(c, e)
    /\ UNCHANGED clientVars
    /\ UNCHANGED <<lastOp, decVars>>

\* an initialize() that returns what the session holds when it is Ready
\* already, and stores the new instance and its keys only when it is not
CreateDoneKeysOk_SkipWhenReady(c, h) ==
    IF Ready
    THEN /\ UNCHANGED clientVars
         /\ InitializeSettle(c, Resolved(instance, publicKey, signature))
    ELSE /\ instance' = h
         /\ publicKey' = LibPublicKey(h, ContractAddress)
         /\ signature' = LibSignature(h, ContractAddress)
         /\ InitializeSettle(c, Resolved(instance', publicKey', signature'))

\* createInstance resolved with a new instance h: it is stored, then
\* instance.getPublicKey(contractAddress) returns and both keys are stored
CreateDoneKeysOk(c, h) ==
    /\ instance' = h
    /\ publicKey' = LibPublicKey(h, ContractAddress)
    /\ signature' = LibSignature(h, ContractAddress)
    /\ InitializeSettle(c, Resolved(instance', publicKey', signature'))

\* createInstance resolved and was stored, then instance.getPublicKey threw
CreateDoneKeysThrow(c, h, e) ==
    /\ instance' = h
    /\ UNCHANGED <<publicKey, signature>>
    /\ InitializeReject(c, e)

\* a createInstance rejection after which the key pair is still asked of the
\* instance the session holds
CreateFailed_StillDerivesKeys(c, e) ==
    /\ UNCHANGED instance
    /\ publicKey' = LibPublicKey(instance, ContractAddress)
    /\ signature' = LibSignature(instance, ContractAddress)
    /\ InitializeReject(c, e)

\* createInstance rejected
CreateFailed(c, e) ==
    /\ UNCHANGED clientVars
    /\ InitializeReject(c, e)

CreateDone(c) ==
    /\ initPc[c] = "create"
    /\ \/ CreateDoneKeysOk(c, FreshHandle)
       \/ \E e \in KeyErrors : CreateDoneKeysThrow(c, FreshHandle, e)
       \/ \E e \in CreateErrors : CreateFailed(c, e)
    /\ UNCHANGED <<lastOp, decVars>>

\* the entry point of the FHE instance each encrypt method delegates to
InstanceMethod(op) ==
    CASE op = "encryptBool" -> "encrypt_bool"
      [] op = "encryptUint8" -> "encrypt_uint8"
      [] op = "encryptUint16" -> "encrypt_uint16"
      [] op = "encryptUint32" -> "encrypt_uint32"
      [] op = "encryptUint64" -> "encrypt_uint64"
      [] op = "encryptAddress" -> "encrypt_address"

\* the encrypt method of the client for a type tag
EncryptOp(type) ==
    CASE type = "bool" -> "encryptBool"
      [] type = "uint8" -> "encryptUint8"
      [] type = "uint16" -> "encryptUint16"
      [] type = "uint32" -> "encryptUint32"
      [] type = "uint64" -> "encryptUint64"
      [] type = "address" -> "encryptAddress"
EncryptOps == {EncryptOp(t) : t \in EncTypes}

\* the call encryptX(v) makes on the instance
EncryptInstanceCall(op, v) ==
    [method |-> InstanceMethod(op), value |-> v, addr |-> "", user |-> ""]

\* what a property read on null throws
NullReadError == [name |-> <<"TypeError">>,
                  message |-> <<"Cannot read properties of null">>]
\* encryptX(value) { return this.instance.encrypt_x(value) }: the field is
\* read without getInstance()
EncryptCall_Unchecked(op, v) ==
    /\ IF instance = NoInstance
       THEN lastOp' = Threw(op, NullReadError, NoCall)
       ELSE \/ \E ct \in Ciphertexts :
                 lastOp' = Returned(op, ct, EncryptInstanceCall(op, v))
            \/ \E e \in LibErrors :
                 lastOp' = Threw(op, e, EncryptInstanceCall(op, v))
    /\ UNCHANGED <<clientVars, initVars, decVars>>

\* encryptX(value) { return this.getInstance().encrypt_x(value) }:
\* getInstance() throws on a null instance; otherwise the entry point is
\* called with the value as given, and it returns a ciphertext or throws.
\* lastOp' is what the caller gets.
EncryptCall(op, v) ==
    /\ IF getInstanceThrows
       THEN lastOp' = Threw(op, NotInitializedError, NoCall)
       ELSE \/ \E ct \in Ciphertexts :
                 lastOp' = Returned(op, ct, EncryptInstanceCall(op, v))
            \/ \E e \in LibErrors :
                 lastOp' = Threw(op, e, EncryptInstanceCall(op, v))
    /\ UNCHANGED <<clientVars, initVars, decVars>>

\* createEncryptedInput(userAddress):
\* this.getInstance().createEncryptedInput(this.config.contractAddress, userAddress)
CreateEncryptedInputCall(u) ==
    /\ IF getInstanceThrows
       THEN lastOp' = Threw("createEncryptedInput", NotInitializedError, NoCall)
       ELSE lastOp' = Returned("createEncryptedInput", <<>>,
                               [method |-> "createEncryptedInput", value |-> NoValue,
                                addr |-> ContractAddress, user |-> u])
    /\ UNCHANGED <<clientVars, initVars, decVars>>

(* --------------------------- decryption -------------------------------- *)
\* userDecrypt(request) is entered: it runs up to `await provider.getSigner()`
UserDecryptBegin(d, req, via) ==
    /\ decPc[d] = "idle"
    /\ \A b \in DecIds : b < d => decPc[b] # "idle"
    /\ decPc' = [decPc EXCEPT ![d] = "signer"]
    /\ decReq' = [decReq EXCEPT ![d] = req]
    /\ decVia' = [decVia EXCEPT ![d] = via]
    /\ UNCHANGED <<decTyped, lastDec>>
    /\ UNCHANGED <<clientVars, initVars, lastOp>>

\* a decrypt wrapper that clears its pending flag at the end of the try block
\* instead of in a finally block
HookDecryptSettle_NoFinally(d, settle) ==
    /\ IF decVia[d] = "hook"
       THEN /\ IF settle.status = "resolved"
               THEN /\ decrypted' = settle.value
                    /\ isDecrypting' = FALSE
                    /\ UNCHANGED decError
               ELSE /\ decError' = settle.error
                    /\ UNCHANGED <<decrypted, isDecrypting>>
            /\ lastHook' = HookReturned("decrypt", settle.value, TRUE)
       ELSE UNCHANGED <<decHookVars, lastHook>>
    /\ UNCHANGED <<provState, closures, mounted, votingVars, routeVars, batchVars, encHookVars>>

\* useFhevmDecrypt.decrypt resumes after `await client.userDecrypt(request)`:
\* setDecrypted(result.value) and return it, or setError(err) and return
\* null, then setIsDecrypting(false) in the finally block
HookDecryptSettle(d, settle) ==
    /\ IF decVia[d] = "hook"
       THEN /\ isDecrypting' = FALSE
            /\ IF settle.status = "resolved"
               THEN /\ decrypted' = settle.value
                    /\ UNCHANGED decError
               ELSE /\ decError' = settle.error
                    /\ UNCHANGED decrypted
            /\ lastHook' = HookReturned("decrypt", settle.value, TRUE)
       ELSE UNCHANGED <<decHookVars, lastHook>>
    /\ UNCHANGED <<provState, closures, mounted, votingVars, routeVars, batchVars, encHookVars>>

\* the invocation is over: its frame is gone and its awaiter resumes
UserDecryptSettle(d, settle) ==
    /\ decPc' = [decPc EXCEPT ![d] = "idle"]
    /\ decReq' = [decReq EXCEPT ![d] = NoRequest]
    /\ decVia' = [decVia EXCEPT ![d] = "none"]
    /\ decTyped' = [decTyped EXCEPT ![d] = NoTypedData]
    /\ lastDec' = settle
    /\ HookDecryptSettle(d, settle)

\* userDecrypt's promise rejects with the wrapped error
UserDecryptReject(d, e) ==
    UserDecryptSettle(d, [status |-> "rejected", value |-> NULL, success |-> FALSE,
                          cause |-> e, error |-> WrapDecryptError(e)])

\* getSigner settles; on success `await provider.getNetwork()` is next
SignerDone(d) ==
    /\ decPc[d] = "signer"
    /\ \/ /\ decPc' = [decPc EXCEPT ![d] = "network"]
          /\ UNCHANGED <<decReq, decVia, decTyped, lastDec, uiVars>>
       \/ \E e \in SignerErrors : UserDecryptReject(d, e)
    /\ UNCHANGED <<clientVars, initVars, lastOp>>

\* getNetwork settles; on success the typed data is built from the chain id
\* just read and the request, and signer.signTypedData is called
DecNetworkDone(d) ==
    /\ decPc[d] = "network"
    /\ \/ /\ \E id \in ChainIds :
                decTyped' = [decTyped EXCEPT ![d] = TypedData(id, decReq[d])]
          /\ decPc' = [decPc EXCEPT ![d] = "sign"]
          /\ UNCHANGED <<decReq, decVia, lastDec, uiVars>>
       \/ \E e \in NetworkErrors : UserDecryptReject(d, e)
    /\ UNCHANGED <<clientVars, initVars, lastOp>>

\* signTypedData settles; on success the placeholder result is returned
SignDone(d) ==
    /\ decPc[d] = "sign"
    /\ \/ UserDecryptSettle(d, [status |-> "resolved", value |-> Some(MockValue),
                               success |-> TRUE, cause |-> NoError,
                               error |-> NoError])
       \/ \E e \in SignErrors : UserDecryptReject(d, e)
    /\ UNCHANGED <<clientVars, initVars, lastOp>>

\* publicDecrypt(contractAddress, ciphertext): an async function without an
\* await, whose try block only returns the placeholder result
PublicDecryptCall ==
    /\ lastOp' = Returned("publicDecrypt", Some(MockValue), NoCall)
    /\ UNCHANGED <<clientVars, initVars, decVars>>

(* ------------------ FhevmProvider and the hooks ------------------------ *)
HookNotInitializedError == MkError(<<"FHEVM client ", "not initialized">>)
\* new Error(`Unsupported type: ${type}`)
UnsupportedTypeError(type) == MkError(<<"Unsupported type: ", type>>)

\* type tags a caller can hand to useFhevmEncrypt.encrypt: the six known
\* ones and one the switch does not know
HookTypes == EncTypes \cup {"string"}

\* Every change of the provider's state re-renders it, and the callbacks the
\* new render creates close over the new state; callbacks of earlier renders
\* stay callable by whoever holds them.

\* FhevmProvider.initialize of some render (the mount effect calls the first
\* render's): returns at once if that render saw isInitializing or
\* isInitialized; otherwise setIsInitializing(true), setError(null) and
\* `await client.initialize()`
ProviderInitialize(cl) ==
    /\ ~(cl.isInitializing \/ cl.isInitialized)
    /\ provInitializing' = TRUE
    /\ provError' = NoError
    /\ \E c \in InitIds : InitializeBegin(c, "provider")
    /\ UNCHANGED <<provInstance, provPublicKey, provSignature, provInitialized>>
    /\ closures' = closures \cup {Closure(provInitialized', provInitializing')}
    /\ UNCHANGED <<mounted, votingVars, routeVars, batchVars, encHookVars, decHookVars, lastHook>>

\* the try block of useFhevmEncrypt.encrypt for a known type tag: the client
\* call, then setEncrypted / setEncryptedHex and the result is returned; a
\* throw is caught: setError(err), null is returned
HookEncryptKnown(t, v) ==
    /\ EncryptCall(EncryptOp(t), v)
    /\ IF lastOp'.outcome = "returned"
       THEN /\ encrypted' = Some(lastOp'.result)
            /\ encryptedHex' = Some(encryptedToHex(lastOp'.result))
            /\ encError' = NoError
            /\ lastHook' = HookReturned("encrypt", Some(lastOp'.result), TRUE)
       ELSE /\ encError' = lastOp'.error
            /\ UNCHANGED <<encrypted, encryptedHex>>
            /\ lastHook' = HookReturned("encrypt", NULL, TRUE)

\* the default branch of the switch throws inside the try block
HookEncryptUnknown(t) ==
    /\ encError' = UnsupportedTypeError(t)
    /\ lastHook' = HookReturned("encrypt", NULL, TRUE)
    /\ UNCHANGED <<encrypted, encryptedHex>>
    /\ UNCHANGED <<clientVars, initVars, lastOp, decVars>>

\* the values of isInitialized the memoized hook callbacks closed over
\* (useCallback with the dependencies [client, isInitialized])
HookClosures == {cl.isInitialized : cl \in closures}

\* an encrypt wrapper without the isInitialized guard
HookEncrypt_NoGuard(t, v, cl) ==
    /\ IF t \in EncTypes THEN HookEncryptKnown(t, v) ELSE HookEncryptUnknown(t)
    /\ isEncrypting' = FALSE
    /\ UNCHANGED <<provState, closures, mounted, votingVars, routeVars, decHookVars>>

\* useFhevmEncrypt.encrypt(type, value) of a render that saw cl: the whole
\* call, as nothing in it suspends.  setIsEncrypting(true) is undone by the
\* finally block before the call returns.
HookEncrypt(t, v, cl) ==
    /\ IF ~cl
       THEN /\ encError' = HookNotInitializedError
            /\ lastHook' = HookReturned("encrypt", NULL, FALSE)
            /\ UNCHANGED <<encrypted, encryptedHex>>
            /\ UNCHANGED <<clientVars, initVars, lastOp, decVars>>
       ELSE IF t \in EncTypes THEN HookEncryptKnown(t, v) ELSE HookEncryptUnknown(t)
    /\ isEncrypting' = FALSE
    /\ UNCHANGED <<provState, closures, mounted, votingVars, routeVars, decHookVars>>

\* useFhevmDecrypt.decrypt(request) of a render that saw cl, up to
\* `await client.userDecrypt(request)`
HookDecrypt(req, cl) ==
    /\ IF ~cl
       THEN /\ decError' = HookNotInitializedError
            /\ lastHook' = HookReturned("decrypt", NULL, FALSE)
            /\ UNCHANGED <<isDecrypting, decrypted>>
            /\ UNCHANGED <<clientVars, initVars, lastOp, decVars>>
       ELSE /\ isDecrypting' = TRUE
            /\ decError' = NoError
            /\ UNCHANGED decrypted
            /\ \E d \in DecIds : UserDecryptBegin(d, req, "hook")
            /\ lastHook' = HookAwaiting("decrypt")
    /\ UNCHANGED <<provState, closures, mounted, votingVars, routeVars, batchVars, encHookVars>>

\* useFhevmEncrypt.reset()
EncryptReset ==
    /\ encrypted' = NULL
    /\ encryptedHex' = NULL
    /\ encError' = NoError
    /\ UNCHANGED <<isEncrypting, provState, closures, mounted, votingVars, routeVars,
                   batchVars, decHookVars, lastHook>>
    /\ UNCHANGED <<clientVars, initVars, lastOp, decVars>>

\* a reset() that also clears the pending flag
DecryptReset_ClearsPending ==
    /\ decrypted' = NULL
    /\ decError' = NoError
    /\ isDecrypting' = FALSE
    /\ UNCHANGED <<provState, closures, mounted, votingVars, routeVars, batchVars,
                   encHookVars, lastHook>>
    /\ UNCHANGED <<clientVars, initVars, lastOp, decVars>>

\* useFhevmDecrypt.reset()
DecryptReset ==
    /\ decrypted' = NULL
    /\ decError' = NoError
    /\ UNCHANGED <<isDecrypting, provState, closures, mounted, votingVars, routeVars,
                   batchVars, encHookVars, lastHook>>
    /\ UNCHANGED <<clientVars, initVars, lastOp, decVars>>

(* ----------------- application code using the client ------------------- *)
\* client.initialize()
DirectInitialize ==
    /\ \E c \in InitIds : InitializeBegin(c, "direct")
    /\ UNCHANGED uiVars

\* `await client.initialize()` by a caller that starts no other invocation
\* before this one has settled
AwaitedInitialize ==
    /\ \A c \in InitIds : initPc[c] = "idle"
    /\ DirectInitialize

InitializeStep ==
    \E c \in InitIds : ImportDone(c) \/ NetworkDone(c) \/ CreateDone(c)

\* client.encryptBool(v) .. client.encryptAddress(v)
ClientEncrypt ==
    /\ \E t \in EncTypes : \E v \in EncValues(t) : EncryptCall(EncryptOp(t), v)
    /\ UNCHANGED uiVars

\* client.createEncryptedInput(u)
ClientCreateEncryptedInput ==
    /\ \E u \in UserAddresses : CreateEncryptedInputCall(u)
    /\ UNCHANGED uiVars

\* client.userDecrypt(request)
DirectUserDecrypt ==
    /\ \E d \in DecIds : \E req \in DecryptRequests : UserDecryptBegin(d, req, "client")
    /\ UNCHANGED uiVars

UserDecryptStep ==
    \E d \in DecIds : SignerDone(d) \/ DecNetworkDone(d) \/ SignDone(d)

\* client.publicDecrypt(address, ciphertext)
ClientPublicDecrypt ==
    /\ PublicDecryptCall
    /\ UNCHANGED uiVars

\* the client alone: initialization
NextInit ==
    \/ DirectInitialize
    \/ InitializeStep

SpecInit == Init /\ [][NextInit]_vars

\* the client alone: initialization, each invocation awaited
NextAwaited ==
    \/ AwaitedInitialize
    \/ InitializeStep

SpecAwaited == Init /\ [][NextAwaited]_vars

\* the client alone: initialization and the synchronous operations; these
\* read the three fields only, and overlapping invocations of initialize()
\* leave them absent or present in the same combinations as awaited ones
Next ==
    \/ AwaitedInitialize
    \/ InitializeStep
    \/ ClientEncrypt
    \/ ClientCreateEncryptedInput

Spec == Init /\ [][Next]_vars

\* the client alone: initialization and decryption
NextDecrypt ==
    \/ AwaitedInitialize
    \/ InitializeStep
    \/ DirectUserDecrypt
    \/ UserDecryptStep
    \/ ClientPublicDecrypt

SpecDecrypt == Init /\ [][NextDecrypt]_vars

(* ------------------------ the React application ------------------------ *)
\* a provider is mounted with a component that uses one of the two hooks
InitHooks == Fresh /\ mounted \in {"encrypt", "decrypt"}

\* the mount effect, or a component calling the context's initialize, while
\* no invocation is pending
ProviderInitializeCall ==
    /\ \A c \in InitIds : initPc[c] = "idle"
    /\ \E cl \in closures : ProviderInitialize(cl)

HookEncryptCall ==
    /\ mounted = "encrypt"
    /\ \E t \in HookTypes : \E v \in EncValues(t) : \E cl \in HookClosures :
          HookEncrypt(t, v, cl)
    /\ UNCHANGED batchVars

HookEncryptReset == mounted = "encrypt" /\ EncryptReset

\* the component decrypts values of the configured contract
HookRequests == {req \in DecryptRequests : req.contractAddress = ContractAddress}

HookDecryptCall ==
    /\ mounted = "decrypt"
    /\ \E req \in HookRequests : \E cl \in HookClosures : HookDecrypt(req, cl)

HookDecryptReset == mounted = "decrypt" /\ DecryptReset

\* a provider with its client, and a component using a hook
NextHooks ==
    \/ ProviderInitializeCall
    \/ InitializeStep
    \/ HookEncryptCall
    \/ HookEncryptReset
    \/ HookDecryptCall
    \/ UserDecryptStep
    \/ HookDecryptReset

SpecHooks == InitHooks /\ [][NextHooks]_vars

\* the mount effect runs (again, under StrictMode), or a component calls the
\* initialize it took from the context at some render
ContextInitialize == \E cl \in closures : ProviderInitialize(cl)

\* a provider with its client, initialize being called at any time
NextProvider ==
    \/ ContextInitialize
    \/ InitializeStep

SpecProvider == Init /\ [][NextProvider]_vars

(* --------------------------- the utilities ----------------------------- *)
\* an argument is at hand and no call was made yet
Asked(v) == [NoOp EXCEPT !.value = v]
InitHex ==
    /\ Untouched
    /\ mounted = "none"
    /\ \/ \E b \in ByteSeqs : lastOp = Asked(BytesV(b))
       \/ \E h \in HexStrings : lastOp = Asked(StrV(h))

appVars == <<clientVars, initVars, decVars, uiVars>>

\* the call made with the argument at hand
\* (for validateEncryptionValue, the pair of its arguments)
HexCall == [NoCall EXCEPT !.value = lastOp.value]
BytesToHexCall ==
    /\ lastOp.op = "none" /\ lastOp.value.kind = "bytes"
    /\ lastOp' = Returned("bytesToHex", bytesToHex(lastOp.value.s), HexCall)
    /\ UNCHANGED appVars
EncryptedToHexCall ==
    /\ lastOp.op = "none" /\ lastOp.value.kind = "bytes"
    /\ lastOp' = Returned("encryptedToHex", encryptedToHex(lastOp.value.s), HexCall)
    /\ UNCHANGED appVars

\* the hex string handed to a conversion back: the one at hand, or the one
\* a conversion to hex has just returned (method then names that conversion
\* and value keeps the bytes it was given)
HasHexArg ==
    \/ lastOp.op = "none" /\ lastOp.value.kind = "string"
    \/ lastOp.op \in {"bytesToHex", "encryptedToHex"}
HexArg == IF lastOp.op = "none" THEN lastOp.value.s ELSE lastOp.result
HexBackCall == [HexCall EXCEPT !.method = lastOp.op]
HexToBytesCall ==
    /\ HasHexArg
    /\ lastOp' = Returned("hexToBytes", hexToBytes(HexArg), HexBackCall)
    /\ UNCHANGED appVars
HexToUint8ArrayCall ==
    /\ HasHexArg
    /\ lastOp' = Returned("hexToUint8Array", hexToUint8Array(HexArg), HexBackCall)
    /\ UNCHANGED appVars

\* the (type, value) pairs validateEncryptionValue is applied to: numbers and
\* bigints at and around the bounds of the types, negative ones, -0, a
\* fraction and NaN, both booleans, and all short strings over StrAlphabet
MaxStrLen == 3
StrAlphabet == {"0", "1", "2", "5", "6", ".", "-", "x", " "}
BoundMags ==
    {<<>>, <<1>>, <<255>>, <<256>>, <<65535>>, <<0, 1>>, <<65535, 65535>>,
     <<0, 0, 1>>, <<0, 0, 0, 0, 1>>}
ValidationValues ==
    {NumV(m) : m \in BoundMags} \cup {BigV(m) : m \in BoundMags}
    \cup {BigV(MaxUint64), Val("bigint", TRUE, <<1>>, TRUE, FALSE, <<>>)}
    \cup {NegV(<<>>), NegV(<<1>>), FracV(<<1>>), NaN}
    \cup {BoolV(b) : b \in BOOLEAN}
    \cup {StrV(str) : str \in UNION {[1..n -> StrAlphabet] : n \in 0..MaxStrLen}}
    \cup {StrV(ValidAddress), StrV(ShortAddress)}
ValidationTypes == EncTypes \cup {"string"}

InitValidate ==
    /\ Untouched
    /\ mounted = "none"
    /\ \E type \in ValidationTypes, v \in ValidationValues :
            lastOp = Asked(<<type, v>>)

\* validateEncryptionValue(type, value): every path of it returns
ValidateCall ==
    /\ lastOp.op = "none"
    /\ lastOp' = Returned("validateEncryptionValue",
                          ValidationResult(lastOp.value[1], lastOp.value[2]),
                          HexCall)
    /\ UNCHANGED appVars

NextValidate == ValidateCall

SpecValidate == InitValidate /\ [][NextValidate]_vars

\* createInputProof(instance, contractAddress, userAddress, values).
\* The builder belongs to the FHE library: a call on it returns or throws,
\* and encrypt() returns one handle per value added, in the order added.
MaxValues == 3
TypedValues ==
    UNION {{[type |-> t, value |-> v] : v \in EncValues(t)} :
             t \in EncTypes \cup {"string"}}
ValueLists == UNION {[1..n -> TypedValues] : n \in 0..MaxValues}

\* the case of the switch: the add method called for a type tag, with the
\* call for uint16 going to add8
AddMethod_Uint16As8(type) ==
    CASE type = "bool" -> "addBool"
      [] type = "uint8" -> "add8"
      [] type = "uint16" -> "add8"
      [] type = "uint32" -> "add32"
      [] type = "uint64" -> "add64"
      [] type = "address" -> "addAddress"
\* the case of the switch: the add method called for a type tag
AddMethod(type) ==
    CASE type = "bool" -> "addBool"
      [] type = "uint8" -> "add8"
      [] type = "uint16" -> "add16"
      [] type = "uint32" -> "add32"
      [] type = "uint64" -> "add64"
      [] type = "address" -> "addAddress"

BuilderCall(m, v) == [method |-> m, value |-> v, addr |-> "", user |-> ""]
LibHandle(call) == <<"handle", call.method, call.value>>
LibEncrypt(adds) ==
    [handles |-> [i \in 1..Len(adds) |-> LibHandle(adds[i])], inputProof |-> "0xproof"]

\* the for loop: calls are the calls made on the library so far, and the
\* call number failAt throws e (0: none does)
RECURSIVE AddValues(_, _, _, _)
AddValues(values, calls, failAt, e) ==
    IF values = <<>> THEN [error |-> NoError, calls |-> calls]
    ELSE IF Head(values).type \notin EncTypes
    THEN [error |-> UnsupportedTypeError(Head(values).type), calls |-> calls]
    ELSE LET made == Append(calls, BuilderCall(AddMethod(Head(values).type),
                                               Head(values).value))
         IN  IF Len(made) = failAt THEN [error |-> e, calls |-> made]
             ELSE AddValues(Tail(values), made, failAt, e)

\* the whole function: what it returned or threw and the calls it made
createInputProof(contract, user, values, failAt, e) ==
    LET first == <<[method |-> "createEncryptedInput", value |-> NoValue,
                    addr |-> contract, user |-> user]>>
        loop == AddValues(values, first, failAt, e)
        all == Append(loop.calls, BuilderCall("encrypt", NoValue))
        done(outcome, err, r, calls) ==
            [op |-> "createInputProof", outcome |-> outcome, error |-> err,
             result |-> r, method |-> calls, value |-> values,
             addr |-> contract, user |-> user]
    IN  IF failAt = 1 THEN done("threw", e, <<>>, first)
        ELSE IF loop.error # NoError THEN done("threw", loop.error, <<>>, loop.calls)
        ELSE IF failAt = Len(all) THEN done("threw", e, <<>>, all)
        ELSE done("returned", NoError,
                  LibEncrypt(SubSeq(loop.calls, 2, Len(loop.calls))), all)

InitProof ==
    /\ Untouched
    /\ mounted = "none"
    /\ \E values \in ValueLists, u \in UserAddresses :
            lastOp = [Asked(values) EXCEPT !.addr = ContractAddress, !.user = u]

CreateInputProofCall ==
    /\ lastOp.op = "none"
    /\ \E failAt \in 0..(Len(lastOp.value) + 2), e \in LibErrors :
            lastOp' = createInputProof(lastOp.addr, lastOp.user, lastOp.value, failAt, e)
    /\ UNCHANGED appVars

NextProof == CreateInputProofCall

SpecProof == InitProof /\ [][NextProof]_vars

NextHex ==
    \/ BytesToHexCall
    \/ EncryptedToHexCall
    \/ HexToBytesCall
    \/ HexToUint8ArrayCall

SpecHex == InitHex /\ [][NextHex]_vars

(* -------------------------- ProxyVotingSystem -------------------------- *)
\* what no transaction touches
offChain == <<clientVars, initVars, lastOp, decVars, provState, closures, mounted,
              routeVars, batchVars, encHookVars, decHookVars, lastHook>>
proposalCount == Len(proposals)

\* a transaction reverts: the storage is as before, no event is emitted
Reverted(fn, sender, id, reason) ==
    /\ lastTx' = [fn |-> fn, sender |-> sender, proposalId |-> id,
                  ok |-> FALSE, reason |-> reason]
    /\ UNCHANGED <<isRegisteredVoter, delegations, votingPower, proposals, now,
                   voteCast>>
Succeeded(fn, sender, id) ==
    lastTx' = [fn |-> fn, sender |-> sender, proposalId |-> id,
               ok |-> TRUE, reason |-> ""]

\* registerVoter(voter)
RegisterVoter(sender, voter) ==
    /\ IF sender # Owner
       THEN Reverted("registerVoter", sender, 0, "OwnableUnauthorizedAccount")
       ELSE IF isRegisteredVoter[voter]
       THEN Reverted("registerVoter", sender, 0, "Voter already registered")
       ELSE /\ isRegisteredVoter' = [isRegisteredVoter EXCEPT ![voter] = TRUE]
            /\ votingPower' = [votingPower EXCEPT ![voter] = Euint32(1)]
            /\ Succeeded("registerVoter", sender, 0)
            /\ UNCHANGED <<delegations, proposals, now, voteCast>>
    /\ UNCHANGED offChain

\* createProposal(description); the description plays no part
CreateProposal(sender) ==
    /\ proposalCount < MaxProposals
    /\ IF sender # Owner
       THEN Reverted("createProposal", sender, proposalCount, "OwnableUnauthorizedAccount")
       ELSE /\ proposals' = Append(proposals,
                                  [yesVotes |-> Euint32(0), noVotes |-> Euint32(0),
                                   deadline |-> now + VOTING_PERIOD, active |-> TRUE,
                                   hasVoted |-> {}])
            /\ voteCast' = Append(voteCast, [a \in Accounts |-> 0])
            /\ Succeeded("createProposal", sender, proposalCount)
            /\ UNCHANGED <<isRegisteredVoter, delegations, votingPower, now>>
    /\ UNCHANGED offChain

\* _revokeDelegation(delegator): the voting power and the delegations after it
RevokedPower(delegator) ==
    LET delegate == delegations[delegator].delegate
        weight == delegations[delegator].weight
        taken == [votingPower EXCEPT ![delegate] = Sub32(@, weight)]
    IN  [taken EXCEPT ![delegator] = weight]
RevokedDelegations(delegator) == [delegations EXCEPT ![delegator] = NoDelegation]

\* delegateVote(delegate)
DelegateVote(sender, delegate) ==
    /\ IF ~isRegisteredVoter[sender]
       THEN Reverted("delegateVote", sender, 0, "Not a registered voter")
       ELSE IF delegate = sender
       THEN Reverted("delegateVote", sender, 0, "Cannot delegate to yourself")
       ELSE IF ~isRegisteredVoter[delegate]
       THEN Reverted("delegateVote", sender, 0, "Delegate must be registered voter")
       ELSE LET power == IF delegations[sender].active THEN RevokedPower(sender)
                         ELSE votingPower
                held == IF delegations[sender].active THEN RevokedDelegations(sender)
                        ELSE delegations
                given == [power EXCEPT ![delegate] = Add32(@, power[sender])]
            IN  /\ delegations' = [held EXCEPT ![sender] =
                                      [delegate |-> delegate, active |-> TRUE,
                                       weight |-> power[sender]]]
                /\ votingPower' = [given EXCEPT ![sender] = Euint32(0)]
                /\ \A a \in Accounts : votingPower'[a] \in PowerValues
                /\ Succeeded("delegateVote", sender, 0)
                /\ UNCHANGED <<isRegisteredVoter, proposals, now, voteCast>>
    /\ UNCHANGED offChain

\* revokeDelegation()
RevokeDelegation(sender) ==
    /\ IF ~isRegisteredVoter[sender]
       THEN Reverted("revokeDelegation", sender, 0, "Not a registered voter")
       ELSE IF ~delegations[sender].active
       THEN Reverted("revokeDelegation", sender, 0, "No active delegation")
       ELSE /\ votingPower' = RevokedPower(sender)
            /\ \A a \in Accounts : votingPower'[a] \in PowerValues
            /\ delegations' = RevokedDelegations(sender)
            /\ Succeeded("revokeDelegation", sender, 0)
            /\ UNCHANGED <<isRegisteredVoter, proposals, now, voteCast>>
    /\ UNCHANGED offChain

\* vote without its "Already voted" requirement
VoteRevertReason_NoVotedCheck(sender, id, proofOk) ==
    IF ~isRegisteredVoter[sender] THEN "Not a registered voter"
    ELSE IF ~(id < proposalCount) THEN "Invalid proposal ID"
    ELSE IF ~proposals[id + 1].active THEN "Proposal not active"
    ELSE IF ~(now <= proposals[id + 1].deadline) THEN "Voting period ended"
    ELSE IF delegations[sender].active THEN "Cannot vote while delegation is active"
    ELSE IF ~proofOk THEN "TFHE"
    ELSE ""
\* the modifiers and requirements of vote, in the order they are evaluated,
\* then TFHE.asEuint32(value, inputProof), which reverts on a proof it does
\* not accept; "": none reverts
VoteRevertReason(sender, id, proofOk) ==
    IF ~isRegisteredVoter[sender] THEN "Not a registered voter"
    ELSE IF ~(id < proposalCount) THEN "Invalid proposal ID"
    ELSE IF ~proposals[id + 1].active THEN "Proposal not active"
    ELSE IF ~(now <= proposals[id + 1].deadline) THEN "Voting period ended"
    ELSE IF sender \in proposals[id + 1].hasVoted THEN "Already voted"
    ELSE IF delegations[sender].active THEN "Cannot vote while delegation is active"
    ELSE IF ~proofOk THEN "TFHE"
    ELSE ""

\* vote(proposalId, isYes, inputProof)
Vote(sender, id, isYes, proofOk) ==
    /\ IF VoteRevertReason(sender, id, proofOk) # ""
       THEN Reverted("vote", sender, id, VoteRevertReason(sender, id, proofOk))
       ELSE LET voterPower == votingPower[sender]
                yesVoteWeight == IF isYes THEN voterPower ELSE Euint32(0)
                noVoteWeight == IF isYes THEN Euint32(0) ELSE voterPower
            IN  /\ proposals' =
                       [proposals EXCEPT
                          ![id + 1].hasVoted = @ \cup {sender},
                          ![id + 1].yesVotes = Add32(@, yesVoteWeight),
                          ![id + 1].noVotes = Add32(@, noVoteWeight)]
                /\ voteCast' = [voteCast EXCEPT ![id + 1][sender] = @ + 1]
                /\ Succeeded("vote", sender, id)
                /\ UNCHANGED <<isRegisteredVoter, delegations, votingPower, now>>
    /\ UNCHANGED offChain

\* closeProposal(proposalId)
CloseProposal(sender, id) ==
    /\ IF sender # Owner
       THEN Reverted("closeProposal", sender, id, "OwnableUnauthorizedAccount")
       ELSE IF ~(id < proposalCount)
       THEN Reverted("closeProposal", sender, id, "Invalid proposal ID")
       ELSE IF ~(now > proposals[id + 1].deadline)
       THEN Reverted("closeProposal", sender, id, "Voting still active")
       ELSE /\ proposals' = [proposals EXCEPT ![id + 1].active = FALSE]
            /\ Succeeded("closeProposal", sender, id)
            /\ UNCHANGED <<isRegisteredVoter, delegations, votingPower, now, voteCast>>
    /\ UNCHANGED offChain

\* blocks are mined: a voting period passes, or a day more than that
AdvanceTime(days) ==
    /\ now + days <= MaxTime
    /\ now' = now + days
    /\ UNCHANGED <<isRegisteredVoter, delegations, votingPower, proposals,
                   voteCast, lastTx>>
    /\ UNCHANGED offChain

RegisterVoterTx == \E sender, voter \in Accounts : RegisterVoter(sender, voter)
CreateProposalTx == \E sender \in Accounts : CreateProposal(sender)
DelegateVoteTx == \E sender, delegate \in Accounts : DelegateVote(sender, delegate)
RevokeDelegationTx == \E sender \in Accounts : RevokeDelegation(sender)
VoteTx ==
    \E sender \in Accounts, id \in ProposalIds, isYes, proofOk \in BOOLEAN :
        Vote(sender, id, isYes, proofOk)
CloseProposalTx == \E sender \in Accounts, id \in ProposalIds : CloseProposal(sender, id)
BlocksMined == \E days \in {VOTING_PERIOD, VOTING_PERIOD + 1} : AdvanceTime(days)

NextVoting ==
    \/ RegisterVoterTx
    \/ CreateProposalTx
    \/ DelegateVoteTx
    \/ RevokeDelegationTx
    \/ VoteTx
    \/ CloseProposalTx
    \/ BlocksMined

SpecVoting == Init /\ [][NextVoting]_vars

\* registration and delegation alone
NextDelegation ==
    \/ RegisterVoterTx
    \/ DelegateVoteTx
    \/ RevokeDelegationTx

SpecDelegation == Init /\ [][NextDelegation]_vars

(* ---------------------------- properties ------------------------------- *)
\* the step in which invocation c of initialize() settles
InitSettles(c) == initPc[c] # "idle" /\ initPc'[c] = "idle"
\* the step in which invocation d of userDecrypt(), awaited by the decrypt
\* hook, settles
HookDecSettles(d) == decPc[d] # "idle" /\ decPc'[d] = "idle" /\ decVia[d] = "hook"
NotInitializedText == <<"not initialized">>
\* the text of a wrapped message after the prefix
AfterPrefix(prefix, msg) == SubSeq(msg, Len(prefix) + 1, Len(msg))

\* C1: an initialize() that rejects on a session whose instance, publicKey
\* and signature are all absent leaves all three absent and isInitialized()
\* false; one that resolves leaves all three populated.
C1_FailedInitLeavesNothing ==
    [][\A c \in InitIds :
         /\ (/\ InitSettles(c)
             /\ lastInit'.status = "rejected"
             /\ instance = NoInstance /\ publicKey = NULL /\ signature = NULL)
            => (/\ instance' = NoInstance /\ publicKey' = NULL /\ signature' = NULL
                /\ ~isInitialized')
         /\ (InitSettles(c) /\ lastInit'.status = "resolved") => Ready']_vars

\* C2: in every reachable state publicKey and signature are defined iff
\* instance is defined: getPublicKey() and getSignature() throw iff
\* isInitialized() is false.
C2_KeysIffInstance ==
    /\ (publicKey # NULL /\ signature # NULL) <=> instance # NoInstance
    /\ getPublicKeyThrows <=> ~isInitialized
    /\ getSignatureThrows <=> ~isInitialized

\* C3: with the instance absent, each encrypt method and
\* createEncryptedInput throws a 'not initialized' error, makes no call on
\* the FHE instance and leaves the session as it was.
C3_AbsentInstanceThrows ==
    [][instance = NoInstance =>
         /\ \A t \in EncTypes : \A v \in EncValues(t) :
               EncryptCall(EncryptOp(t), v) =>
                  /\ lastOp'.op = EncryptOp(t)
                  /\ lastOp'.outcome = "threw"
                  /\ Contains(lastOp'.error.message, NotInitializedText)
                  /\ lastOp'.method = "none"
                  /\ UNCHANGED <<clientVars, initVars>>
         /\ \A u \in UserAddresses :
               CreateEncryptedInputCall(u) =>
                  /\ lastOp'.op = "createEncryptedInput"
                  /\ lastOp'.outcome = "threw"
                  /\ Contains(lastOp'.error.message, NotInitializedText)
                  /\ lastOp'.method = "none"
                  /\ UNCHANGED <<clientVars, initVars>>]_vars

\* an encrypt method threw 'not initialized' on a session on which
\* initialize() was never called
C3_Witness ==
    /\ instance = NoInstance
    /\ lastInit.status = "none"
    /\ \A c \in InitIds : initPc[c] = "idle"
    /\ lastOp.op = "encryptAddress"
    /\ lastOp.outcome = "threw"
    /\ lastOp.error = NotInitializedError
    /\ lastOp.method = "none"

\* C4: userDecrypt and publicDecrypt require the Ready state: on a session
\* that is not Ready no signature is requested from the signer and no
\* decryption result is returned.
C4_DecryptRequiresReady ==
    ~Ready =>
       /\ \A d \in DecIds : decPc[d] # "sign" /\ decTyped[d] = NoTypedData
       /\ lastDec.status # "resolved"
       /\ ~(lastOp.op = "publicDecrypt" /\ lastOp.outcome = "returned")

\* C5: the typed encrypt entry point of the FHE instance is invoked only
\* for values that pass the validation of the type.
C5_OnlyValidValuesReachInstance ==
    \A t \in EncTypes :
       lastOp.method = InstanceMethod(EncryptOp(t)) =>
          validateEncryptionValue(t, lastOp.value)

\* C6: an initialize() in which a step failed with error E rejects with a
\* new Error whose message is the fixed prefix followed by text that
\* contains E's message.
C6_InitErrorWrapsCause ==
    /\ lastInit.status = "rejected" <=> lastInit.cause # NoError
    /\ lastInit.status = "rejected" =>
          /\ lastInit.cause \in ExtErrors
          /\ lastInit.error # lastInit.cause
          /\ lastInit.error.name = <<"Error">>
          /\ IsPrefix(InitPrefix, lastInit.error.message)
          /\ Contains(AfterPrefix(InitPrefix, lastInit.error.message),
                      lastInit.cause.message)

\* initialize() rejected because createInstance rejected
C6_Witness ==
    /\ lastInit.status = "rejected"
    /\ lastInit.cause \in CreateErrors
    /\ lastInit.error.message = InitPrefix \o <<"bad gateway">>

\* C7: with each initialize() awaited before the next is called, a call
\* that resolves leaves the session Ready with the instance, publicKey and
\* signature it returned, the instance being a newly created one with keys
\* derived from it, also when the session was Ready before.
C7_ReinitLastCallWins ==
    lastInit.status = "resolved" =>
       /\ Ready
       /\ instance = lastInit.instance
       /\ publicKey = lastInit.publicKey
       /\ signature = lastInit.signature
       /\ lastInit.fresh
       /\ publicKey = LibPublicKey(instance, ContractAddress)
       /\ signature = LibSignature(instance, ContractAddress)

\* two initialize() calls in sequence have both resolved
C7_Witness ==
    /\ lastInit.status = "resolved"
    /\ lastInit.repeat
    /\ \A c \in InitIds : initPc[c] = "idle"

\* C8: a hook wrapper invoked while the session is not Ready sets error to
\* a 'not initialized' error and returns null without calling the session;
\* it does not set its pending flag and the result stays absent.
C8_NotReadyWrapper ==
    [][~Ready =>
         /\ \A t \in HookTypes : \A v \in EncValues(t) : \A cl \in HookClosures :
               HookEncrypt(t, v, cl) =>
                  /\ Contains(encError'.message, NotInitializedText)
                  /\ lastHook' = HookReturned("encrypt", NULL, FALSE)
                  /\ isEncrypting' = FALSE
                  /\ encrypted' = NULL /\ encryptedHex' = NULL
                  /\ UNCHANGED <<clientVars, initVars, lastOp, decVars>>
         /\ \A req \in HookRequests : \A cl \in HookClosures :
               HookDecrypt(req, cl) =>
                  /\ Contains(decError'.message, NotInitializedText)
                  /\ lastHook' = HookReturned("decrypt", NULL, FALSE)
                  /\ isDecrypting' = FALSE
                  /\ decrypted' = NULL
                  /\ UNCHANGED <<clientVars, initVars, lastOp, decVars>>]_vars

\* the decrypt wrapper has returned null with the 'not initialized' error
\* while an initialize() had failed and none had succeeded
C8_Witness ==
    /\ ~Ready
    /\ provError # NoError
    /\ lastHook = HookReturned("decrypt", NULL, FALSE)
    /\ decError = HookNotInitializedError
    /\ decrypted = NULL
    /\ ~isDecrypting

\* C9: when the session call a hook wrapper makes throws or rejects, or the
\* type tag is unsupported, the wrapper clears its pending flag, sets error
\* to the thrown error and resolves with null.
C9_WrapperCatches ==
    [][/\ \A t \in HookTypes : \A v \in EncValues(t) :
             (/\ mounted = "encrypt"
              /\ t \notin EncTypes \/ (lastOp'.outcome = "threw" /\ lastOp'.op = EncryptOp(t))
              /\ HookEncrypt(t, v, TRUE))
                => /\ isEncrypting' = FALSE
                   /\ encError' = IF t \in EncTypes THEN lastOp'.error
                                  ELSE UnsupportedTypeError(t)
                   /\ lastHook' = HookReturned("encrypt", NULL, TRUE)
       /\ \A d \in DecIds :
             (HookDecSettles(d) /\ lastDec'.status = "rejected")
                => /\ isDecrypting' = FALSE
                   /\ decError' = lastDec'.error
                   /\ lastHook' = HookReturned("decrypt", NULL, TRUE)]_vars

\* the decrypt wrapper has resolved with null after userDecrypt rejected
\* because the user refused to sign
C9_Witness ==
    /\ lastHook = HookReturned("decrypt", NULL, TRUE)
    /\ lastDec.status = "rejected"
    /\ lastDec.cause \in SignErrors
    /\ decError = lastDec.error
    /\ ~isDecrypting

\* C10: a failed operation of a hook wrapper leaves result absent and error
\* populated.
C10_FailureLeavesNoResult ==
    [][/\ \A t \in HookTypes : \A v \in EncValues(t) : \A cl \in HookClosures :
             (HookEncrypt(t, v, cl) /\ lastHook'.value = NULL)
                => encrypted' = NULL /\ encryptedHex' = NULL /\ encError' # NoError
       /\ \A req \in HookRequests : \A cl \in HookClosures :
             (HookDecrypt(req, cl) /\ lastHook'.status = "returned")
                => decrypted' = NULL /\ decError' # NoError
       /\ \A d \in DecIds :
             (HookDecSettles(d) /\ lastDec'.status = "rejected")
                => decrypted' = NULL /\ decError' # NoError]_vars

\* C11: reset() of a hook sets the result and the error to absent and
\* leaves the pending flag and a call in flight as they are; a call that
\* settles afterwards writes its result or its error over the reset state.
C11_ResetClearsResultAndError ==
    [][/\ HookEncryptReset =>
             /\ encrypted' = NULL /\ encryptedHex' = NULL /\ encError' = NoError
             /\ isEncrypting' = isEncrypting
       /\ HookDecryptReset =>
             /\ decrypted' = NULL /\ decError' = NoError
             /\ isDecrypting' = isDecrypting
             /\ UNCHANGED decVars
       /\ \A d \in DecIds :
             HookDecSettles(d) =>
                IF lastDec'.status = "resolved"
                THEN decrypted' = lastDec'.value /\ decrypted' # NULL
                ELSE decError' = lastDec'.error /\ decError' # NoError]_vars

\* reset() ran while a decrypt call of the hook was in flight: the result
\* the call that settled last had returned is gone, the other call is
\* still awaited
C11_Witness ==
    /\ \E d \in DecIds : decVia[d] = "hook" /\ decPc[d] # "idle"
    /\ lastHook = HookReturned("decrypt", Some(MockValue), TRUE)
    /\ decrypted = NULL
    /\ decError = NoError

\* the step in which the provider starts an invocation of client.initialize()
ProviderStarts ==
    \E c \in InitIds :
        initPc[c] = "idle" /\ initPc'[c] # "idle" /\ initOwner'[c] = "provider"

\* C12: the provider's initialize() starts no client.initialize() while one
\* it started is pending, nor after one it started has succeeded.
C12_ProviderInitializesOnce ==
    [][ProviderStarts =>
          /\ \A c \in InitIds : initOwner[c] # "provider"
          /\ ~provInitialized]_vars

\* the hex form of n bytes: "0x", then two lowercase hex digits per byte
IsHexForm(h, n) ==
    /\ Len(h) = 2 + 2 * n
    /\ h[1] = "0" /\ h[2] = "x"
    /\ \A i \in 3..Len(h) : \E k \in 1..16 : LowerHex[k] = h[i]

\* C13: converting a byte sequence to hex and back returns it, with
\* bytesToHex / hexToBytes and with encryptedToHex / hexToUint8Array, and the
\* hex form is "0x" followed by exactly two lowercase hex digits per byte.
C13_HexRoundTrip ==
    /\ lastOp.op \in {"bytesToHex", "encryptedToHex"}
        => IsHexForm(lastOp.result, Len(lastOp.value.s))
    /\ lastOp.op = "hexToBytes" /\ lastOp.method = "bytesToHex"
        => lastOp.outcome = "returned" /\ lastOp.result = lastOp.value.s
    /\ lastOp.op = "hexToUint8Array" /\ lastOp.method = "encryptedToHex"
        => lastOp.outcome = "returned" /\ lastOp.result = lastOp.value.s

\* three bytes, one of them below 16, went to hex and came back
C13_Witness ==
    /\ lastOp.op = "hexToUint8Array" /\ lastOp.method = "encryptedToHex"
    /\ lastOp.value = BytesV(<<9, 255, 0>>)
    /\ lastOp.result = <<9, 255, 0>>

\* a hex string that has, after its 0x prefix, an odd number of digits or a
\* character that is no hex digit
Malformed(h) ==
    LET digits == Slice0x(h)
    IN  \/ Len(digits) % 2 = 1
        \/ \E i \in 1..Len(digits) : HexValue(digits[i]) < 0

\* C14: hexToBytes and hexToUint8Array fail for every hex string that has,
\* after removal of the 0x prefix, an odd number of digits or a non-hex
\* character; they never return a byte sequence for such input.
C14_MalformedHexFails ==
    /\ lastOp.op \in {"hexToBytes", "hexToUint8Array"}
    /\ lastOp.method = "none"
    /\ Malformed(lastOp.value.s)
    => lastOp.outcome = "threw"

IntTypes == {"uint8", "uint16", "uint32", "uint64"}
MaxOf(type) ==
    CASE type = "uint8" -> MaxUint8 [] type = "uint16" -> MaxUint16
      [] type = "uint32" -> MaxUint32 [] type = "uint64" -> MaxUint64

\* C15: for the integer types validateEncryptionValue accepts a number or a
\* bigint if and only if it is an integer inside the type's range, and it
\* rejects every boolean, the empty string and every value that is no
\* integer; for type bool it accepts booleans only.
C15_IntegerTypesAcceptIntegersOnly ==
    lastOp.op = "validateEncryptionValue" =>
        LET type == lastOp.value[1]
            v == lastOp.value[2]
            valid == lastOp.result.valid
        IN  /\ type \in IntTypes /\ v.kind \in {"number", "bigint"}
                => (valid <=> /\ v.int
                              /\ ~v.neg \/ v.mag = <<>>
                              /\ MagLeq(v.mag, MaxOf(type)))
            /\ type \in IntTypes /\ v.kind = "boolean" => ~valid
            /\ type \in IntTypes /\ v = StrV(<<>>) => ~valid
            /\ type = "bool" => (valid <=> v.kind = "boolean")

\* C16: for every (type, value) pair, unknown type tags included,
\* validateEncryptionValue returns {valid: true} or {valid: false} with a
\* reason string, and never throws; nothing but the result changes.
C16_ValidationTotal ==
    /\ lastOp.op = "validateEncryptionValue" =>
            /\ lastOp.outcome = "returned"
            /\ \/ lastOp.result = [valid |-> TRUE]
               \/ /\ DOMAIN lastOp.result = {"valid", "error"}
                  /\ ~lastOp.result.valid
                  /\ lastOp.result.error # <<>>
    /\ Untouched

\* a string that BigInt() cannot read was rejected for uint64
C16_Witness ==
    /\ lastOp.op = "validateEncryptionValue"
    /\ lastOp.outcome = "returned"
    /\ lastOp.value = <<"uint64", StrV(<<"1", ".", "5">>)>>
    /\ lastOp.result = [valid |-> FALSE, error |-> <<"Value must be a valid BigInt">>]

\* the add method of the builder that belongs to each type tag
MatchingAdd ==
    [bool |-> "addBool", uint8 |-> "add8", uint16 |-> "add16", uint32 |-> "add32",
     uint64 |-> "add64", address |-> "addAddress"]

\* the calls createInputProof makes for values that it adds all: the builder
\* is made, each value is added by the method of its type, encrypt is last
BatchCalls(contract, user, values) ==
    <<[method |-> "createEncryptedInput", value |-> NoValue,
       addr |-> contract, user |-> user]>>
    \o [i \in 1..Len(values) |-> BuilderCall(MatchingAdd[values[i].type], values[i].value)]
    \o <<BuilderCall("encrypt", NoValue)>>
\* a call of createInputProof has ended and no call on the library threw
ProofEnded == lastOp.op = "createInputProof" /\ lastOp.error \notin LibErrors
AllSupported(values) == \A i \in 1..Len(values) : values[i].type \in EncTypes
\* N adds in list order, one encrypt after them, and N handles in that order
BatchInOrder ==
    /\ lastOp.outcome = "returned"
    /\ lastOp.method = BatchCalls(lastOp.addr, lastOp.user, lastOp.value)
    /\ Len(lastOp.result.handles) = Len(lastOp.value)
    /\ \A i \in 1..Len(lastOp.value) :
          lastOp.result.handles[i] =
              <<"handle", MatchingAdd[lastOp.value[i].type], lastOp.value[i].value>>

SignedOver(d, id, req) ==
    /\ decTyped[d].domain = [name |-> "FHEVM Decryption", version |-> "1",
                             chainId |-> id,
                             verifyingContract |-> req.contractAddress]
    /\ decTyped[d].types = [Decryption |-> <<[name |-> "ciphertext", type |-> "bytes"],
                                             [name |-> "user", type |-> "address"]>>]
    /\ decTyped[d].value = [ciphertext |-> req.ciphertext, user |-> req.userAddress]

\* C18: an invocation of userDecrypt requests a signature once, when
\* getNetwork has answered, over the typed data with domain {name "FHEVM
\* Decryption", version "1", the chain id just read, verifyingContract the
\* request's contract}, type Decryption = [ciphertext: bytes, user: address]
\* and value {the request's ciphertext and user}; it resolves only from the
\* wait for that signature.
C18_SignatureOverTypedData ==
    [][\A d \in DecIds :
         /\ decTyped'[d] # decTyped[d] /\ decTyped'[d] # NoTypedData
              => /\ decPc[d] = "network" /\ decPc'[d] = "sign"
                 /\ decTyped[d] = NoTypedData
                 /\ decReq'[d] = decReq[d]
                 /\ \E id \in ChainIds : SignedOver(d, id, decReq[d])'
         /\ decPc'[d] = "sign"
              => \/ decPc[d] = "sign" /\ decTyped'[d] = decTyped[d]
                 \/ decPc[d] = "network" /\ decTyped'[d] # decTyped[d]
         /\ decPc[d] # "idle" /\ decPc'[d] = "idle" /\ lastDec'.status = "resolved"
              => /\ decPc[d] = "sign"
                 /\ \E id \in ChainIds : SignedOver(d, id, decReq[d])
                 /\ lastDec'.value = Some(MockValue) /\ lastDec'.success
      ]_vars

\* a signature is awaited over the second request's contract on chain
\* 11155111 while an initialize() has read chain id 31337
C18_Witness ==
    \E d \in DecIds, c \in InitIds :
        /\ decPc[d] = "sign"
        /\ decReq[d].contractAddress = "0xC1"
        /\ SignedOver(d, 11155111, decReq[d])
        /\ initChain[c] = 31337

\* C19: a userDecrypt whose signature request was rejected by the signer
\* rejects with that same error, unchanged; a failure of any other step is
\* wrapped with the decryption prefix; a failed userDecrypt returns no
\* success result.
C19_SignRejectionAsIs ==
    lastDec.status = "rejected" =>
        /\ lastDec.cause \in SignErrors => lastDec.error = lastDec.cause
        /\ lastDec.cause \notin SignErrors
              => /\ IsPrefix(DecryptPrefix, lastDec.error.message)
                 /\ lastDec.error = WrapDecryptError(lastDec.cause)
        /\ lastDec.value = NULL /\ ~lastDec.success

\* the conditions of the claim for a vote of account a on proposal id
MayVote(a, id) ==
    /\ isRegisteredVoter[a]
    /\ ~delegations[a].active
    /\ id < proposalCount
    /\ proposals[id + 1].active
    /\ now <= proposals[id + 1].deadline
    /\ a \notin proposals[id + 1].hasVoted

\* C20: vote(proposalId, ...) succeeds only when the caller is a registered
\* voter without active delegation, the proposal exists, is active, its
\* deadline has not passed and the caller has not voted on it; hasVoted of a
\* proposal never loses an address, and no address has two successful votes
\* on the same proposal.
C20_VoteOncePerProposal ==
    /\ [](\A i \in 1..proposalCount : \A a \in Accounts :
             /\ voteCast[i][a] <= 1
             /\ voteCast[i][a] = 1 <=> a \in proposals[i].hasVoted)
    /\ [][/\ \A i \in 1..proposalCount : \A a \in Accounts :
               /\ a \in proposals[i].hasVoted => a \in proposals'[i].hasVoted
               /\ voteCast'[i][a] # voteCast[i][a]
                    => /\ MayVote(a, i - 1)
                       /\ a \in proposals'[i].hasVoted
                       /\ lastTx' = [fn |-> "vote", sender |-> a, proposalId |-> i - 1,
                                     ok |-> TRUE, reason |-> ""]
            /\ proposalCount' >= proposalCount
            /\ lastTx'.fn = "vote" /\ lastTx'.ok /\ lastTx' # lastTx
                 => MayVote(lastTx'.sender, lastTx'.proposalId)
         ]_vars

\* an account that has voted on proposal 0 sent a second vote on it while the
\* proposal was open, and that vote was reverted
C20_Witness ==
    /\ proposalCount = 1
    /\ voteCast[1]["0xU1"] = 1
    /\ proposals[1].active /\ now <= proposals[1].deadline
    /\ lastTx = [fn |-> "vote", sender |-> "0xU1", proposalId |-> 0,
                 ok |-> FALSE, reason |-> "Already voted"]

\* a <= b for euint32 values
Leq32(a, b) == a[2] < b[2] \/ (a[2] = b[2] /\ a[1] <= b[1])
\* the sum of all voting powers, as the library adds them
RECURSIVE SumPower(_)
SumPower(accounts) ==
    IF accounts = {} THEN Euint32(0)
    ELSE LET a == CHOOSE x \in accounts : TRUE
         IN  Add32(votingPower[a], SumPower(accounts \ {a}))
RegisteredCount == Cardinality({a \in Accounts : isRegisteredVoter[a]})
\* the transaction of this step is a successful call of fn by sender
TxSucceeds(fn, sender) ==
    /\ lastTx'.fn = fn /\ lastTx'.sender = sender /\ lastTx'.ok
    /\ <<delegations, votingPower>>' # <<delegations, votingPower>>

\* C21: a successful delegateVote(d) by v sets v's voting power to 0, adds
\* v's previous power to d's and records the active delegation v -> d; and
\* the sum of all voting powers always equals the number of registered
\* voters.
C21_DelegationConservesPower ==
    /\ [](SumPower(Accounts) = Euint32(RegisteredCount))
    /\ [][\A v, d \in Accounts :
             TxSucceeds("delegateVote", v) /\ delegations'[v].delegate = d
               => /\ votingPower'[v] = Euint32(0)
                  /\ votingPower'[d] = Add32(votingPower[d], votingPower[v])
                  /\ delegations'[v].active
         ]_vars

\* C29: the weight counted for a proposal, yes votes plus no votes, never
\* exceeds the number of registered voters.
C29_WeightCountedOnce ==
    \A i \in 1..proposalCount :
        Leq32(Add32(proposals[i].yesVotes, proposals[i].noVotes),
              Euint32(RegisteredCount))

\* C30: revokeDelegation() by a voter with an active delegation succeeds and
\* undoes the delegation: the delegator's power is the recorded weight, the
\* delegate's power is reduced by it and the delegation is inactive, and the
\* delegate's power was not less than the weight, so nothing wraps around.
C30_RevokeUndoesDelegation ==
    [][\A v \in Accounts :
         /\ lastTx'.fn = "revokeDelegation" /\ lastTx'.sender = v
            /\ lastTx' # lastTx /\ isRegisteredVoter[v] /\ delegations[v].active
              => lastTx'.ok
         /\ TxSucceeds("revokeDelegation", v)
              => /\ Leq32(delegations[v].weight, votingPower[delegations[v].delegate])
                 /\ votingPower'[v] = delegations[v].weight
                 /\ votingPower'[delegations[v].delegate] =
                        Sub32(votingPower[delegations[v].delegate], delegations[v].weight)
                 /\ ~delegations'[v].active
      ]_vars

(* --------------------------- the keys API route ------------------------ *)
\* everything but the route module's state
offRoute == <<clientVars, initVars, lastOp, decVars, provState, closures, mounted,
              votingVars, batchVars, encHookVars, decHookVars, lastHook>>

\* client.getPublicKey() of a server-side client
ServerPublicKey(cl) == <<"pk", cl>>

\* getFheClient() called for request r with the cache as it is after
\* `cleared`: a cached client is returned; otherwise
\* initializeServerFheClient is called, which constructs a FhevmClient and
\* suspends at `await client.initialize()`
getFheClient(r, cleared) ==
    IF ~cleared /\ cachedClient # NoClient
    THEN /\ reqPc' = [reqPc EXCEPT ![r] = "client"]
         /\ reqClient' = [reqClient EXCEPT ![r] = cachedClient]
         /\ UNCHANGED clientsCreated
    ELSE /\ clientsCreated < MaxClients
         /\ clientsCreated' = clientsCreated + 1
         /\ reqPc' = [reqPc EXCEPT ![r] = "initializing"]
         /\ reqClient' = [reqClient EXCEPT ![r] = clientsCreated + 1]

\* GET: the cached public key is returned if there is one; otherwise
\* `await getFheClient()`
KeysGet(r) ==
    /\ reqPc[r] = "idle"
    /\ IF cachedPublicKey # NULL
       THEN UNCHANGED <<reqPc, reqClient, clientsCreated>>
       ELSE getFheClient(r, FALSE)
    /\ UNCHANGED <<cachedClient, cachedPublicKey>>
    /\ UNCHANGED offRoute

\* POST {action: 'refresh'}: both caches are cleared, then `await getFheClient()`
KeysRefresh(r) ==
    /\ reqPc[r] = "idle"
    /\ cachedPublicKey' = NULL
    /\ cachedClient' = NoClient
    /\ getFheClient(r, TRUE)
    /\ UNCHANGED offRoute

\* `cachedClient = await initializeServerFheClient(...)` resumes with the
\* initialized client
ServerInitResolved(r) ==
    /\ cachedClient' = reqClient[r]
    /\ reqPc' = [reqPc EXCEPT ![r] = "client"]
    /\ UNCHANGED reqClient

\* client.initialize() rejected: getFheClient() rejects, the handler's catch
\* block answers 500
ServerInitRejected(r) ==
    /\ reqPc' = [reqPc EXCEPT ![r] = "idle"]
    /\ reqClient' = [reqClient EXCEPT ![r] = NoClient]
    /\ UNCHANGED cachedClient

ServerInitDone(r) ==
    /\ reqPc[r] = "initializing"
    /\ ServerInitResolved(r) \/ ServerInitRejected(r)
    /\ UNCHANGED <<cachedPublicKey, clientsCreated>>
    /\ UNCHANGED offRoute

\* the handler resumes after `await getFheClient()`:
\* cachedPublicKey = client.getPublicKey(), and the response is sent
KeysRespond(r) ==
    /\ reqPc[r] = "client"
    /\ cachedPublicKey' = ServerPublicKey(reqClient[r])
    /\ reqPc' = [reqPc EXCEPT ![r] = "idle"]
    /\ reqClient' = [reqClient EXCEPT ![r] = NoClient]
    /\ UNCHANGED <<cachedClient, clientsCreated>>
    /\ UNCHANGED offRoute

NextRoute ==
    \/ \E r \in Requests : KeysGet(r)
    \/ \E r \in Requests : KeysRefresh(r)
    \/ \E r \in Requests : ServerInitDone(r)
    \/ \E r \in Requests : KeysRespond(r)

SpecRoute == Init /\ [][NextRoute]_vars

(* ---------------------------- useEncryption --------------------------- *)
\* the longest list handed to encryptBatch, and the items it is made of: a
\* vital sign that fits its type and one that does not
MaxBatch == 2
BatchItem(t, v) == [type |-> t, value |-> v]
BatchItems == {BatchItem("uint8", v) : v \in EncValues("uint8")}
BatchLists == UNION {[1..n -> BatchItems] : n \in 0..MaxBatch}

\* a provider is mounted with a component that uses useEncryption
InitBatch == Fresh /\ mounted = "batch"

\* encryptBatch(items) is entered: setIsBatchEncrypting(true),
\* setBatchError(null), results = []; sdk is the isInitialized the sdkEncrypt
\* of this encryptBatch closed over
EncryptBatchBegin(items, sdk) ==
    /\ ~isBatchEncrypting
    /\ isBatchEncrypting' = TRUE
    /\ batchError' = NoError
    /\ batchItems' = items
    /\ batchSdk' = sdk
    /\ batchResults' = <<>>
    /\ lastBatch' = [status |-> "running", items |-> items, results |-> <<>>]
    /\ UNCHANGED <<clientVars, initVars, lastOp, decVars, provState, closures, mounted,
                   votingVars, routeVars, encHookVars, decHookVars, lastHook>>

\* one turn of the loop: `const result = await sdkEncrypt(item.type,
\* item.value); if (result) results.push(result)`.  sdkEncrypt catches what
\* the client throws and returns null, so the catch block of encryptBatch is
\* not entered.
EncryptBatchItem ==
    /\ isBatchEncrypting
    /\ batchItems # <<>>
    /\ HookEncrypt(Head(batchItems).type, Head(batchItems).value, batchSdk)
    /\ batchResults' = IF lastHook'.value # NULL
                       THEN Append(batchResults, lastHook'.value[1])
                       ELSE batchResults
    /\ batchItems' = Tail(batchItems)
    /\ UNCHANGED <<isBatchEncrypting, batchError, batchSdk, lastBatch>>

\* the loop is over: `return results`, and the finally block runs
\* setIsBatchEncrypting(false)
EncryptBatchReturn ==
    /\ isBatchEncrypting
    /\ batchItems = <<>>
    /\ isBatchEncrypting' = FALSE
    /\ lastBatch' = [lastBatch EXCEPT !.status = "returned", !.results = batchResults]
    /\ UNCHANGED <<batchError, batchItems, batchSdk, batchResults>>
    /\ UNCHANGED <<clientVars, initVars, lastOp, decVars, provState, closures, mounted,
                   votingVars, routeVars, encHookVars, decHookVars, lastHook>>

\* a component calls the encryptBatch of some render
EncryptBatchCall ==
    \E items \in BatchLists : \E cl \in HookClosures : EncryptBatchBegin(items, cl)

\* the error useEncryption returns: sdkError || batchError
BatchHookError == IF encError # NoError THEN encError ELSE batchError

NextBatch ==
    \/ ProviderInitializeCall
    \/ InitializeStep
    \/ EncryptBatchCall
    \/ EncryptBatchItem
    \/ EncryptBatchReturn

SpecBatch == InitBatch /\ [][NextBatch]_vars

(* ------------------- two overlapping initialize() ----------------------- *)
\* initialize() is called on a new session, by the provider's mount effect
\* or by a component on the client itself, and a second one while the first
\* is pending; no further call is made once one of them has settled
OverlapInitialize ==
    /\ lastInit = NoSettle
    /\ DirectInitialize \/ ContextInitialize

NextOverlap ==
    \/ OverlapInitialize
    \/ InitializeStep

SpecOverlap == Init /\ [][NextOverlap]_vars

\* the steps an invocation takes between its awaits
InitOrder ==
    {<<"idle", "import">>, <<"import", "network">>, <<"network", "create">>,
     <<"import", "idle">>, <<"network", "idle">>, <<"create", "idle">>}

C23_OverlapLastWriteWins ==
    /\ []((/\ \A c \in InitIds : initPc[c] = "idle"
           /\ lastInit.status = "resolved" /\ lastInit.repeat)
            => /\ instance = lastInit.instance
               /\ publicKey = lastInit.publicKey
               /\ signature = lastInit.signature)
    /\ [][lastInit'.status = "resolved"
            /\ (\E c \in InitIds : initPc[c] = "create" /\ initPc'[c] = "idle")
              => /\ lastInit'.instance \notin {NoInstance, instance, lastInit.instance}
                 /\ lastInit'.publicKey
                        = LibPublicKey(lastInit'.instance, ContractAddress)
                 /\ lastInit'.signature
                        = LibSignature(lastInit'.instance, ContractAddress)
         ]_vars

\* both overlapping calls have resolved
C23_Witness ==
    /\ \A c \in InitIds : initPc[c] = "idle"
    /\ lastInit.status = "resolved"
    /\ lastInit.repeat
    /\ instance = lastInit.instance

\* C26: in every state the stored publicKey and signature are the ones
\* derived from the stored instance, or all three are absent.
C26_KeysOfStoredInstance ==
    \/ instance = NoInstance /\ publicKey = NULL /\ signature = NULL
    \/ /\ instance # NoInstance
       /\ publicKey = LibPublicKey(instance, ContractAddress)
       /\ signature = LibSignature(instance, ContractAddress)

\* a decrypt call made through the hook has not settled
HookDecryptPending == \E d \in DecIds : decVia[d] = "hook" /\ decPc[d] # "idle"

\* C24: in every state in which a decrypt call made through the hook has
\* not settled the hook's isDecrypting is true, and isEncrypting is false
\* whenever no encrypt call of the hook is running (an encrypt call does not
\* suspend between setting and clearing it).
C24_PendingWhileInFlight ==
    /\ HookDecryptPending => isDecrypting
    /\ ~isEncrypting

(* -------------------- provider and useFHE().reinitialize ---------------- *)
\* a provider with its client and a component that calls
\* useFHE().reinitialize (KeyManager's refresh button) while no invocation is
\* pending: `await client.initialize()` on the provider's client, awaited by
\* the component and not by the provider
NextReinitialize ==
    \/ ContextInitialize
    \/ AwaitedInitialize
    \/ InitializeStep

SpecReinitialize == Init /\ [][NextReinitialize]_vars

\* C27: whenever the provider reports isInitialized, the instance,
\* publicKey and signature it publishes are the ones its client holds.
C27_ProviderPublishesClientState ==
    provInitialized =>
        /\ provInstance = instance
        /\ provPublicKey = publicKey
        /\ provSignature = signature

\* C25: the requests whose getFheClient() is suspended in
\* initializeServerFheClient all await one attempt, the initialization of
\* one client: no second attempt is started while one is pending and no
\* client is cached.
C25_SingleInitializationInFlight ==
    \A r1, r2 \in Requests :
        reqPc[r1] = "initializing" /\ reqPc[r2] = "initializing"
            => reqClient[r1] = reqClient[r2]

\* C28: when encryptBatch returns, either it returns as many ciphertexts as
\* it was given items, or the error the hook reports is not null.
C28_BatchFailureIsReported ==
    [][isBatchEncrypting /\ ~isBatchEncrypting'
         => \/ Len(lastBatch'.results) = Len(lastBatch'.items)
            \/ BatchHookError' # NoError
      ]_vars
====
